---- MODULE Spec2Model ----
(***************************************************************************)
(* Model of the metrics engine of go-libp4dlog (src/metrics/metrics.go):   *)
(* the aggregator (publishEvent, resetToZero, getCumulativeMetrics), the   *)
(* historical boundary detector (historicalUpdateRequired) and the event   *)
(* loop of ProcessEvents with its channels.                                *)
(*                                                                         *)
(* Conventions.                                                            *)
(*  - A Go string is a sequence of one-character strings, so that byte     *)
(*    offsets, prefixes and comparisons are those of the code.             *)
(*  - Durations and seconds totals are integers counting thousandths of a  *)
(*    second (the code's float64 seconds times 1000).                      *)
(*  - A time.Time is a record [ok, unix]: ok = FALSE is the zero Time that *)
(*    time.Parse returns with an error, unix the seconds since 1970.       *)
(*  - A buffered channel is a sequence bounded by its capacity; a send on  *)
(*    a full channel parks the goroutine at a pc label of its own.         *)
(***************************************************************************)
EXTENDS Integers, Sequences, FiniteSets, TLC

\* ------------------------------------------------------------------ bounds

\* Lines the raw-line source delivers in one run.
MaxLines == 2
\* Commands the parser delivers in one run.
MaxCmds == 2
\* Ticks of the ticker in one run.
MaxTicks == 2
\* Capacity of fpLinesChan (10000 in the code), scaled down.
FpLinesCap == 1
\* Capacity of timeChan (1000 in the code), scaled down.
TimeChanCap == 1
\* Capacity of metricsChan (1000 in the code), scaled down.
MetricsCap == 1
\* Capacity of cmdsOutChan (10000 in the code), scaled down.
CmdsOutCap == 1

\* ----------------------------------------------------------------- strings

\* The printable ASCII characters in byte order: 32 (space) to 95, and 97 to
\* 126 (byte 96, the backquote, cannot be written in a TLA+ string and occurs
\* in no input of the model).
AsciiLow ==
    << " ", "!", "\"", "#", "$", "%", "&", "'", "(", ")", "*", "+", ",", "-",
       ".", "/", "0", "1", "2", "3", "4", "5", "6", "7", "8", "9", ":", ";",
       "<", "=", ">", "?", "@", "A", "B", "C", "D", "E", "F", "G", "H", "I",
       "J", "K", "L", "M", "N", "O", "P", "Q", "R", "S", "T", "U", "V", "W",
       "X", "Y", "Z", "[", "\\", "]", "^", "_" >>

AsciiHigh ==
    << "a", "b", "c", "d", "e", "f", "g", "h", "i", "j", "k", "l", "m", "n",
       "o", "p", "q", "r", "s", "t", "u", "v", "w", "x", "y", "z", "{", "|",
       "}", "~" >>

Chars ==
    { AsciiLow[i] : i \in 1..Len(AsciiLow) }
        \cup { AsciiHigh[i] : i \in 1..Len(AsciiHigh) } \cup { "\t" }

\* The byte value of a character.
Ord == [ c \in Chars |->
           IF c = "\t" THEN 9
           ELSE IF \E i \in 1..Len(AsciiLow) : AsciiLow[i] = c
                THEN 31 + (CHOOSE i \in 1..Len(AsciiLow) : AsciiLow[i] = c)
                ELSE 96 + (CHOOSE i \in 1..Len(AsciiHigh) : AsciiHigh[i] = c) ]

IsDigit(c) == Ord[c] >= Ord["0"] /\ Ord[c] <= Ord["9"]

DigitVal(c) == Ord[c] - Ord["0"]

Digit(n) == AsciiLow[17 + n]

\* n as two and as four decimal digits.
D2(n) == << Digit(n \div 10), Digit(n % 10) >>

D4(n) == D2(n \div 100) \o D2(n % 100)

\* s[from..] and s[..to], the Go slices s[from-1:] and s[:to].
Drop(s, n) == SubSeq(s, n + 1, Len(s))

Take(s, n) == SubSeq(s, 1, n)

\* strings.Compare: -1, 0 or 1 by byte-wise lexicographic order.
RECURSIVE StrCompare(_, _)
StrCompare(a, b) ==
    IF a = << >> /\ b = << >> THEN 0
    ELSE IF a = << >> THEN 0 - 1
    ELSE IF b = << >> THEN 1
    ELSE IF Ord[Head(a)] < Ord[Head(b)] THEN 0 - 1
    ELSE IF Ord[Head(a)] > Ord[Head(b)] THEN 1
    ELSE StrCompare(Tail(a), Tail(b))

\* strings.Index(s, sub) as a 0-based offset, -1 when sub does not occur.
StrIndex(s, sub) ==
    LET hits == { i \in 0..(Len(s) - Len(sub)) : SubSeq(s, i + 1, i + Len(sub)) = sub }
    IN  IF hits = {} THEN 0 - 1
        ELSE CHOOSE i \in hits : \A j \in hits : i <= j

\* strings.ReplaceAll(s, old, new) for a non-empty old.
RECURSIVE StrReplaceAll(_, _, _)
StrReplaceAll(s, old, new) ==
    IF Len(s) < Len(old) THEN s
    ELSE IF Take(s, Len(old)) = old
         THEN new \o StrReplaceAll(Drop(s, Len(old)), old, new)
         ELSE << Head(s) >> \o StrReplaceAll(Tail(s), old, new)

\* strings.ToLower on ASCII.
LowerChar(c) ==
    IF Ord[c] >= Ord["A"] /\ Ord[c] <= Ord["Z"] THEN AsciiHigh[Ord[c] + 32 - 96] ELSE c

StrToLower(s) == [ i \in 1..Len(s) |-> LowerChar(s[i]) ]

\* A TLA+ string literal as a Go string (a sequence of characters).
Str(lit) == [ i \in 1..Len(lit) |-> SubSeq(lit, i, i) ]

\* -------------------------------------------------------------------- time

IsLeap(y) == (y % 4 = 0 /\ y % 100 # 0) \/ y % 400 = 0

DaysIn(m, y) ==
    IF m = 2 THEN (IF IsLeap(y) THEN 29 ELSE 28)
    ELSE IF m \in {4, 6, 9, 11} THEN 30 ELSE 31

\* Days from 1970-01-01 to the civil date y-m-d (proleptic Gregorian, y >= 1).
DaysFromCivil(y, m, d) ==
    LET yy  == IF m <= 2 THEN y - 1 ELSE y
        era == yy \div 400
        yoe == yy - era * 400
        mp  == IF m > 2 THEN m - 3 ELSE m + 9
        doy == (153 * mp + 2) \div 5 + d - 1
        doe == yoe * 365 + yoe \div 4 - yoe \div 100 + doy
    IN  era * 146097 + doe - 719468

\* The zero time.Time, which time.Parse returns together with its error.
ZeroTime == [ok |-> FALSE, unix |-> 0]

\* time.Parse(p4timeformat, s) for s = "YYYY/MM/DD HH:MM:SS" (19 characters whose
\* digits and separators the caller has checked); the error is dropped by the
\* caller, which is left with the zero Time when a field is out of range.
\* The model's inputs carry years 1970..2037, whose seconds fit TLC's integers.
TimeParse(s) ==
    LET N2(i) == DigitVal(s[i]) * 10 + DigitVal(s[i + 1])
        year  == N2(1) * 100 + N2(3)
        month == N2(6)
        day   == N2(9)
        hour  == N2(12)
        min   == N2(15)
        sec   == N2(18)
    IN  IF /\ month >= 1 /\ month <= 12
           /\ day >= 1 /\ day <= DaysIn(month, year)
           /\ hour <= 23 /\ min <= 59 /\ sec <= 59
        THEN [ok |-> TRUE,
              unix |-> DaysFromCivil(year, month, day) * 86400
                         + hour * 3600 + min * 60 + sec]
        ELSE ZeroTime

\* The largest Duration, in seconds; Sub saturates at it. The code's value
\* (2^63 - 1 nanoseconds) exceeds TLC's integers: it stands for "more than any
\* interval and any gap between two parsed times".
MaxDuration == 2147483647

\* t.Sub(u) in seconds. The zero Time lies some 2000 years before any parsed
\* time, further than a Duration holds, so the difference saturates.
TimeSub(t, u) ==
    IF t.ok /\ u.ok THEN t.unix - u.unix
    ELSE IF t.ok THEN MaxDuration
    ELSE IF u.ok THEN 0 - MaxDuration
    ELSE 0

\* ------------------------------------------------------------------ inputs

\* "\tYYYY/MM/DD HH:MM:SS", the 20-character prefix of a command's start line.
Stamp(y, mo, d, h, mi, s) ==
    << "\t" >> \o D4(y) \o << "/" >> \o D2(mo) \o << "/" >> \o D2(d) \o << " " >>
        \o D2(h) \o << ":" >> \o D2(mi) \o << ":" >> \o D2(s)

\* The raw lines the source may deliver: start lines at 00:00:00, +2 s, +10 s
\* and +5 min, a start line whose month is 00 (it passes the digit scan and
\* fails time.Parse), and two lines that do not pass the scan (19 characters;
\* a non-digit at offset 19).
LineT0 == Stamp(2024, 1, 1, 0, 0, 0) \o Str(" pid 1 bob@ws 10.0.0.5 [p4] 'user-sync'")

LineT2 == Stamp(2024, 1, 1, 0, 0, 2)

LineT10 == Stamp(2024, 1, 1, 0, 0, 10) \o Str(" pid 2 completed .250s")

LineT300 == Stamp(2024, 1, 1, 0, 5, 0) \o Str(" pid 3")

LineBadMonth == Stamp(2024, 0, 1, 0, 0, 0) \o Str(" pid 4")

LineShort == Take(Stamp(2024, 1, 1, 0, 9, 0), 19)

LineNoDigit == Take(Stamp(2024, 1, 1, 0, 9, 0), 19) \o Str("x pid 5")

Lines ==
    { LineT0, LineT2, LineT10, LineT300, LineBadMonth, LineShort, LineNoDigit }

\* A table entry of a command record (p4dlog.Table): lock times in milliseconds,
\* the trigger lapse in thousandths of a second.
Table(name, rw, rh, ww, wh, lapse) ==
    [TableName |-> Str(name), TotalReadWait |-> rw, TotalReadHeld |-> rh,
     TotalWriteWait |-> ww, TotalWriteHeld |-> wh, TriggerLapse |-> lapse]

\* The command records the parser may deliver (p4dlog.Command).
CmdSyncRelay ==
    [Cmd |-> Str("sync"), User |-> Str("Bob"), IP |-> Str("relay1/10.0.0.5"),
     App |-> Str("p4 sync (brokered)"), CompletedLapse |-> 1500, UCpu |-> 20,
     SCpu |-> 10, CmdError |-> FALSE, Running |-> 2, NetFilesAdded |-> 3,
     NetFilesUpdated |-> 2, NetFilesDeleted |-> 1, NetBytesAdded |-> 40,
     NetBytesUpdated |-> 50,
     Tables |-> << Table("db.rev", 5, 10, 0, 0, 0),
                   Table("trigger_mytrig", 0, 0, 0, 0, 2000) >>]

CmdEdit ==
    [Cmd |-> Str("edit"), User |-> Str("amy"), IP |-> Str("10.0.0.5"),
     App |-> Str("p4v/1;x"), CompletedLapse |-> 250, UCpu |-> 0,
     SCpu |-> 5, CmdError |-> TRUE, Running |-> 1, NetFilesAdded |-> 0,
     NetFilesUpdated |-> 0, NetFilesDeleted |-> 0, NetBytesAdded |-> 0,
     NetBytesUpdated |-> 0,
     Tables |-> << Table("db.have", 0, 0, 7, 9, 0) >>]

Commands == { CmdSyncRelay, CmdEdit }

\* A configuration of a run (Config, and the historical and needCmdChan
\* arguments). UpdateInterval is in seconds; in live mode it only paces the
\* ticker. OutputCmdsByUserRegex is a literal (no metacharacter), "" when unset.
Config(h, n, u) ==
    [historical |-> h, needCmdChan |-> n, UpdateInterval |-> u,
     CaseSensitiveServer |-> FALSE, OutputCmdsByUser |-> TRUE,
     OutputCmdsByIP |-> TRUE, OutputCmdsByUserRegex |-> Str("bo")]

Configs ==
    { Config(FALSE, FALSE, 60), Config(FALSE, TRUE, 60),
      Config(TRUE, FALSE, 60), Config(TRUE, TRUE, 2) }

\* -------------------------------------------------------------- aggregator

\* A Go map with a zero default: reading a missing key gives 0, and m[k] += d
\* creates the key (also when d = 0).
EmptyMap == [ k \in {} |-> 0 ]

MapGet(m, k) == IF k \in DOMAIN m THEN m[k] ELSE 0

MapAdd(m, k, d) ==
    IF k \in DOMAIN m THEN [ m EXCEPT ![k] = @ + d ] ELSE m @@ (k :> d)

\* for t := range m { m[t] = 0 }
MapZero(m) == [ k \in DOMAIN m |-> 0 ]

\* The P4DMetrics value NewP4DMetricsLogParser returns.
NewP4DMetrics ==
    [timeLatestStartCmd |-> ZeroTime, latestStartCmdBuf |-> << >>,
     cmdRunning |-> 0,
     cmdCounter |-> EmptyMap, cmdErrorCounter |-> EmptyMap,
     cmdCumulative |-> EmptyMap, cmduCPUCumulative |-> EmptyMap,
     cmdsCPUCumulative |-> EmptyMap,
     cmdByUserCounter |-> EmptyMap, cmdByUserCumulative |-> EmptyMap,
     cmdByIPCounter |-> EmptyMap, cmdByIPCumulative |-> EmptyMap,
     cmdByReplicaCounter |-> EmptyMap, cmdByReplicaCumulative |-> EmptyMap,
     cmdByProgramCounter |-> EmptyMap, cmdByProgramCumulative |-> EmptyMap,
     cmdByUserDetailCounter |-> EmptyMap, cmdByUserDetailCumulative |-> EmptyMap,
     totalReadWait |-> EmptyMap, totalReadHeld |-> EmptyMap,
     totalWriteWait |-> EmptyMap, totalWriteHeld |-> EmptyMap,
     totalTriggerLapse |-> EmptyMap,
     syncFilesAdded |-> 0, syncFilesUpdated |-> 0, syncFilesDeleted |-> 0,
     syncBytesAdded |-> 0, syncBytesUpdated |-> 0,
     cmdsProcessed |-> 0, linesRead |-> 0]

\* The characters NotLabelValueRE leaves alone.
LabelValueChars ==
    { c \in Chars :
        \/ Ord[c] >= Ord["a"] /\ Ord[c] <= Ord["z"]
        \/ Ord[c] >= Ord["A"] /\ Ord[c] <= Ord["Z"]
        \/ IsDigit(c)
        \/ c \in { "_", "/", "+", ":", "@", "{", "}", "&", "%", "<", ">", "*",
                   "\\", ".", ",", "(", ")", "[", "]", "-" } }

\* NotLabelValueRE.ReplaceAllString(s, "_")
NotLabelValueREReplace(s) ==
    [ i \in 1..Len(s) |-> IF s[i] \in LabelValueChars THEN s[i] ELSE "_" ]

\* ProgramLabel without the replacement of the characters outside the
\* allow-list.
ProgramLabelOnlyBrokered(app) == StrReplaceAll(app, Str(" (brokered)"), << >>)

\* The program label of a command: " (brokered)" removed, then sanitized.
ProgramLabel(app) ==
    NotLabelValueREReplace(StrReplaceAll(app, Str(" (brokered)"), << >>))

\* outputCmdsByUserRegex.MatchString(user) for the literal regex re: the
\* unanchored "(re)" matches exactly when re occurs in user.
UserRegexMatch(re, user) == StrIndex(user, re) >= 0

triggerPrefix == Str("trigger_")

\* publishTables adding a table to the read maps only when it has read times.
RECURSIVE publishTablesSkipsNoRead(_, _, _)
publishTablesSkipsNoRead(m, tables, i) ==
    IF i > Len(tables) THEN m
    ELSE LET t == tables[i]
             name == t.TableName
         IN  IF Len(name) > Len(triggerPrefix)
                  /\ Take(name, Len(triggerPrefix)) = triggerPrefix
             THEN publishTablesSkipsNoRead(
                    [m EXCEPT !.totalTriggerLapse =
                        MapAdd(@, Drop(name, Len(triggerPrefix)), t.TriggerLapse)],
                    tables, i + 1)
             ELSE publishTablesSkipsNoRead(
                    [m EXCEPT
                        !.totalReadHeld =
                            IF t.TotalReadHeld + t.TotalReadWait > 0
                            THEN MapAdd(@, name, t.TotalReadHeld) ELSE @,
                        !.totalReadWait =
                            IF t.TotalReadHeld + t.TotalReadWait > 0
                            THEN MapAdd(@, name, t.TotalReadWait) ELSE @,
                        !.totalWriteHeld = MapAdd(@, name, t.TotalWriteHeld),
                        !.totalWriteWait = MapAdd(@, name, t.TotalWriteWait)],
                    tables, i + 1)

\* The loop of publishEvent over cmd.Tables, from entry i on.
RECURSIVE publishTables(_, _, _)
publishTables(m, tables, i) ==
    IF i > Len(tables) THEN m
    ELSE LET t == tables[i]
             name == t.TableName
         IN  IF Len(name) > Len(triggerPrefix)
                  /\ Take(name, Len(triggerPrefix)) = triggerPrefix
             THEN publishTables(
                    [m EXCEPT !.totalTriggerLapse =
                        MapAdd(@, Drop(name, Len(triggerPrefix)), t.TriggerLapse)],
                    tables, i + 1)
             ELSE publishTables(
                    [m EXCEPT
                        !.totalReadHeld = MapAdd(@, name, t.TotalReadHeld),
                        !.totalReadWait = MapAdd(@, name, t.TotalReadWait),
                        !.totalWriteHeld = MapAdd(@, name, t.TotalWriteHeld),
                        !.totalWriteWait = MapAdd(@, name, t.TotalWriteWait)],
                    tables, i + 1)

\* publishEvent(cmd) on the aggregates m under configuration cfg.
publishEvent(m, cfg, cmd) ==
    LET user == IF ~cfg.CaseSensitiveServer THEN StrToLower(cmd.User) ELSE cmd.User
        detail == cfg.OutputCmdsByUserRegex # << >>
                     /\ UserRegexMatch(cfg.OutputCmdsByUserRegex, user)
        j == StrIndex(cmd.IP, << "/" >>)
        replica == IF j > 0 THEN Take(cmd.IP, j) ELSE << >>
        ip == IF j > 0 THEN Drop(cmd.IP, j + 1) ELSE cmd.IP
        program == ProgramLabel(cmd.App)
        userCounter == IF user \in DOMAIN m.cmdByUserDetailCounter
                       THEN m.cmdByUserDetailCounter[user] ELSE EmptyMap
        userCumulative == IF user \in DOMAIN m.cmdByUserDetailCounter
                          THEN m.cmdByUserDetailCumulative[user] ELSE EmptyMap
        m1 == [m EXCEPT
                 !.cmdCounter = MapAdd(@, cmd.Cmd, 1),
                 !.cmdCumulative = MapAdd(@, cmd.Cmd, cmd.CompletedLapse),
                 !.cmduCPUCumulative = MapAdd(@, cmd.Cmd, cmd.UCpu),
                 !.cmdsCPUCumulative = MapAdd(@, cmd.Cmd, cmd.SCpu),
                 !.cmdErrorCounter =
                     IF cmd.CmdError THEN MapAdd(@, cmd.Cmd, 1) ELSE @,
                 !.cmdRunning = cmd.Running,
                 !.syncFilesAdded = @ + cmd.NetFilesAdded,
                 !.syncFilesUpdated = @ + cmd.NetFilesUpdated,
                 !.syncFilesDeleted = @ + cmd.NetFilesDeleted,
                 !.syncBytesAdded = @ + cmd.NetBytesAdded,
                 !.syncBytesUpdated = @ + cmd.NetBytesUpdated,
                 !.cmdByUserCounter = MapAdd(@, user, 1),
                 !.cmdByUserCumulative = MapAdd(@, user, cmd.CompletedLapse),
                 !.cmdByUserDetailCounter =
                     IF detail
                     THEN (user :> MapAdd(userCounter, cmd.Cmd, 1)) @@ @
                     ELSE @,
                 !.cmdByUserDetailCumulative =
                     IF detail
                     THEN (user :> MapAdd(userCumulative, cmd.Cmd, cmd.CompletedLapse)) @@ @
                     ELSE @,
                 !.cmdByIPCounter = MapAdd(@, ip, 1),
                 !.cmdByIPCumulative = MapAdd(@, ip, cmd.CompletedLapse),
                 !.cmdByReplicaCounter =
                     IF replica # << >> THEN MapAdd(@, replica, 1) ELSE @,
                 !.cmdByReplicaCumulative =
                     IF replica # << >>
                     THEN MapAdd(@, replica, cmd.CompletedLapse) ELSE @,
                 !.cmdByProgramCounter = MapAdd(@, program, 1),
                 !.cmdByProgramCumulative = MapAdd(@, program, cmd.CompletedLapse)]
    IN  publishTables(m1, cmd.Tables, 1)

\* resetToZero, first loop, zeroing the two read maps only.
resetLockTotalsReadOnly(m) ==
    [m EXCEPT
       !.totalReadHeld = MapZero(@),
       !.totalReadWait = MapZero(@)]

\* resetToZero, first loop: the four lock maps are zeroed over the keys of
\* totalReadHeld.
resetLockTotals(m) ==
    LET held == DOMAIN m.totalReadHeld
        ZeroOver(f) == [ k \in DOMAIN f \cup held |-> IF k \in held THEN 0 ELSE f[k] ]
    IN  [m EXCEPT
           !.totalReadHeld = ZeroOver(@),
           !.totalReadWait = ZeroOver(@),
           !.totalWriteHeld = ZeroOver(@),
           !.totalWriteWait = ZeroOver(@)]

\* resetToZero, the sync counts, cmdRunning and linesRead.
resetScalars(m) ==
    [m EXCEPT
       !.syncFilesAdded = 0,
       !.syncFilesUpdated = 0,
       !.syncFilesDeleted = 0,
       !.syncBytesAdded = 0,
       !.syncBytesUpdated = 0,
       !.cmdRunning = 0,
       !.linesRead = 0]

\* resetToZero, the loops over the trigger map and the counter maps.
resetCounters(m) ==
    [m EXCEPT
       !.totalTriggerLapse = MapZero(@),
       !.cmdByProgramCounter = MapZero(@),
       !.cmdByReplicaCounter = MapZero(@),
       !.cmdByUserDetailCounter = [ u \in DOMAIN @ |-> MapZero(@[u]) ],
       !.cmdByIPCounter = MapZero(@),
       !.cmdByUserCounter = MapZero(@),
       !.cmdErrorCounter = MapZero(@),
       !.cmdCounter = MapZero(@)]

\* resetToZero with the loop over cmdErrorCounter left out.
resetToZeroKeepsErrors(m) ==
    [resetCounters(resetScalars(resetLockTotals(m))) EXCEPT
        !.cmdErrorCounter = m.cmdErrorCounter]

\* resetToZero emptying the trigger map instead of zeroing its entries.
resetToZeroDropsTriggers(m) ==
    [resetCounters(resetScalars(resetLockTotals(m))) EXCEPT
        !.totalTriggerLapse = EmptyMap]

\* resetToZero with the loop over cmdCounter left out.
resetToZeroKeepsCmdCounter(m) ==
    [resetCounters(resetScalars(resetLockTotals(m))) EXCEPT !.cmdCounter = m.cmdCounter]

\* resetToZero zeroing the per-command seconds as well.
resetToZeroAlsoCumulative(m) ==
    [resetCounters(resetScalars(resetLockTotals(m))) EXCEPT
        !.cmdCumulative = MapZero(@)]

\* resetToZero()
resetToZero(m) == resetCounters(resetScalars(resetLockTotals(m)))

\* --------------------------------------------------------------- formatter

\* fmt.Sprintf("%d", n) for n >= 0.
RECURSIVE FormatNat(_)
FormatNat(n) == IF n < 10 THEN << Digit(n) >> ELSE FormatNat(n \div 10) \o << Digit(n % 10) >>

\* fmt.Sprintf("%d", t.Unix()): the zero Time is 62135596800 seconds before
\* 1970.
UnixText(t) == IF t.ok THEN FormatNat(t.unix) ELSE Str("-62135596800")

\* strings.Join(elems, sep)
RECURSIVE StrJoin(_, _)
StrJoin(elems, sep) ==
    IF Len(elems) = 0 THEN << >>
    ELSE IF Len(elems) = 1 THEN elems[1]
    ELSE elems[1] \o sep \o StrJoin(Tail(elems), sep)

\* labelStruct{name, value}
labelStruct(name, value) == [name |-> name, value |-> value]

\* printMetricHeader: what it writes.
printMetricHeader(cfg, name, help, metricType) ==
    IF ~cfg.historical
    THEN Str("# HELP ") \o name \o Str(" ") \o help \o Str("\n# TYPE ") \o name
             \o Str(" ") \o metricType \o Str("\n")
    ELSE << >>

\* formatLabels with the test of l.value left out.
formatLabelsKeepsBlank(cfg, mname, labels) ==
    LET quoted == [ i \in 1..Len(labels) |->
                      IF ~cfg.historical
                      THEN labelStruct(labels[i].name,
                                       Str("\"") \o labels[i].value \o Str("\""))
                      ELSE labels[i] ]
        vals == [ i \in 1..Len(quoted) |->
                    quoted[i].name \o Str("=") \o quoted[i].value ]
    IN  IF cfg.historical
        THEN IF Len(StrJoin(vals, Str(";"))) > 0
             THEN mname \o Str(";") \o StrJoin(vals, Str(";"))
             ELSE mname
        ELSE mname \o Str("{") \o StrJoin(vals, Str(",")) \o Str("}")

\* formatLabels(mname, labels)
formatLabels(cfg, mname, labels) ==
    LET kept == SelectSeq(labels, LAMBDA l : l.value # << >>)
        nonBlankLabels ==
            [ i \in 1..Len(kept) |->
                IF ~cfg.historical
                THEN labelStruct(kept[i].name, Str("\"") \o kept[i].value \o Str("\""))
                ELSE kept[i] ]
        vals == [ i \in 1..Len(nonBlankLabels) |->
                    nonBlankLabels[i].name \o Str("=") \o nonBlankLabels[i].value ]
    IN  IF cfg.historical
        THEN IF Len(StrJoin(vals, Str(";"))) > 0
             THEN mname \o Str(";") \o StrJoin(vals, Str(";"))
             ELSE mname
        ELSE mname \o Str("{") \o StrJoin(vals, Str(",")) \o Str("}")

\* formatMetric(mname, labels, metricVal) on the aggregates m
formatMetric(m, cfg, mname, labels, metricVal) ==
    IF cfg.historical
    THEN formatLabels(cfg, mname, labels) \o Str(" ") \o metricVal \o Str(" ")
             \o UnixText(m.timeLatestStartCmd) \o Str("\n")
    ELSE formatLabels(cfg, mname, labels) \o Str(" ") \o metricVal \o Str("\n")

\* ---------------------------------------------------------------- snapshot

\* One metric family of a snapshot: its name, the TYPE of its header, the name
\* of the label that varies ("" for a family of one sample) and its samples, a
\* map from the label's value to the number printed (a Go map is ranged over in
\* no fixed order, so the samples of a family are unordered).
Family(name, type, label, samples) ==
    [name |-> name, type |-> type, label |-> label, samples |-> samples]

Scalar(name, type, value) == Family(name, type, "", << >> :> value)

\* The (user, cmd) samples of a detail map, keyed by the pair.
DetailSamples(d) ==
    LET keys == { << u, c >> : u \in DOMAIN d, c \in UNION { DOMAIN d[v] : v \in DOMAIN d } }
        real == { k \in keys : k[2] \in DOMAIN d[k[1]] }
    IN  [ k \in real |-> d[k[1]][k[2]] ]

\* getCPUStats(), defined outside the files modelled: the process's own CPU
\* seconds, which no aggregate depends on.
getCPUStats == << 0, 0 >>

\* getCumulativeMetrics(): the snapshot of the aggregates m, as the families it
\* prints in order. pending is fp.CmdsPendingCount(). In the historical
\* dialect every line carries timeLatestStartCmd.Unix() and no header is
\* printed; ts holds that time, and is empty in the live dialect.
getCumulativeMetrics(m, cfg, pending) ==
    [header |-> ~cfg.historical,
     ts |-> IF cfg.historical THEN << m.timeLatestStartCmd >> ELSE << >>,
     families |->
        << Scalar("p4_prom_log_lines_read", "gauge", m.linesRead),
           Scalar("p4_prom_cmds_processed", "counter", m.cmdsProcessed),
           Scalar("p4_prom_cmds_pending", "gauge", pending),
           Scalar("p4_cmd_running", "gauge", m.cmdRunning),
           Scalar("p4_prom_cpu_user", "counter", getCPUStats[1]),
           Scalar("p4_prom_cpu_system", "counter", getCPUStats[2]),
           Scalar("p4_sync_files_added", "gauge", m.syncFilesAdded),
           Scalar("p4_sync_files_updated", "gauge", m.syncFilesUpdated),
           Scalar("p4_sync_files_deleted", "gauge", m.syncFilesDeleted),
           Scalar("p4_sync_bytes_added", "gauge", m.syncBytesAdded),
           Scalar("p4_sync_bytes_updated", "gauge", m.syncBytesUpdated),
           Family("p4_cmd_counter", "gauge", "cmd", m.cmdCounter),
           Family("p4_cmd_cumulative_seconds", "gauge", "cmd", m.cmdCumulative),
           Family("p4_cmd_cpu_user_cumulative_seconds", "gauge", "cmd",
                  m.cmduCPUCumulative),
           Family("p4_cmd_cpu_system_cumulative_seconds", "gauge", "cmd",
                  m.cmdsCPUCumulative),
           Family("p4_cmd_error_counter", "gauge", "cmd", m.cmdErrorCounter) >>
        \o (IF cfg.OutputCmdsByUser
            THEN << Family("p4_cmd_user_counter", "gauge", "user", m.cmdByUserCounter),
                    Family("p4_cmd_user_cumulative_seconds", "gauge", "user",
                           m.cmdByUserCumulative) >>
            ELSE << >>)
        \o (IF cfg.OutputCmdsByIP
            THEN << Family("p4_cmd_ip_counter", "gauge", "ip", m.cmdByIPCounter),
                    Family("p4_cmd_ip_cumulative_seconds", "gauge", "ip",
                           m.cmdByIPCumulative) >>
            ELSE << >>)
        \o (IF cfg.OutputCmdsByUserRegex # << >>
            THEN << Family("p4_cmd_user_detail_counter", "gauge", "user,cmd",
                           DetailSamples(m.cmdByUserDetailCounter)),
                    Family("p4_cmd_user_detail_cumulative_seconds", "gauge", "user,cmd",
                           DetailSamples(m.cmdByUserDetailCumulative)) >>
            ELSE << >>)
        \o << Family("p4_cmd_replica_counter", "gauge", "replica",
                     m.cmdByReplicaCounter),
              Family("p4_cmd_replica_cumulative_seconds", "gauge", "replica",
                     m.cmdByReplicaCumulative),
              Family("p4_cmd_program_counter", "gauge", "program",
                     m.cmdByProgramCounter),
              Family("p4_cmd_program_cumulative_seconds", "gauge", "program",
                     m.cmdByProgramCumulative),
              Family("p4_total_read_wait_seconds", "gauge", "table", m.totalReadWait),
              Family("p4_total_read_held_seconds", "gauge", "table", m.totalReadHeld),
              Family("p4_total_write_wait_seconds", "gauge", "table", m.totalWriteWait),
              Family("p4_total_write_held_seconds", "gauge", "table", m.totalWriteHeld) >>
        \o (IF DOMAIN m.totalTriggerLapse # {}
            THEN << Family("p4_total_trigger_lapse_seconds", "gauge", "trigger",
                           m.totalTriggerLapse) >>
            ELSE << >>)]

\* The samples of family name in snapshot snap (no sample when it is absent).
SamplesOf(snap, name) ==
    IF \E i \in 1..Len(snap.families) : snap.families[i].name = name
    THEN snap.families[CHOOSE i \in 1..Len(snap.families) :
                          snap.families[i].name = name].samples
    ELSE EmptyMap

\* ------------------------------------------------------- boundary detector

\* len("\t2020/03/04 12:13:14")
lenPrefix == 20

\* 3*time.Second, in seconds.
NotifyGap == 3

\* The fixed-offset scan of historicalUpdateRequired (Go offsets are 0-based).
IsStartLine(line) ==
    /\ Len(line) >= lenPrefix
    /\ line[1] = "\t" /\ line[6] = "/" /\ line[9] = "/"
    /\ line[12] = " " /\ line[15] = ":" /\ line[18] = ":"
    /\ \A i \in {1, 2, 3, 4, 6, 7, 9, 10, 12, 13, 15, 16, 18, 19} : IsDigit(line[i + 1])

\* dt of historicalUpdateRequired: time.Parse of line[1:lenPrefix].
LineTime(line) == TimeParse(SubSeq(line, 2, lenPrefix))

\* detectorScan without the test of historical.
detectorScanAnyMode(m, cfg, line) ==
    IF ~IsStartLine(line) THEN "false"
    ELSE IF Len(m.latestStartCmdBuf) = 0 THEN "first"
    ELSE IF m.latestStartCmdBuf = Take(line, lenPrefix) THEN "false"
    ELSE IF StrCompare(Take(line, lenPrefix), m.latestStartCmdBuf) <= 0 THEN "false"
    ELSE "later"

\* historicalUpdateRequired up to its time.Parse: "false" where it returns
\* false leaving the detector as it is, "first" where it stores the first
\* prefix (and returns false), "later" where it goes on to compare times.
detectorScan(m, cfg, line) ==
    IF ~cfg.historical THEN "false"
    ELSE IF ~IsStartLine(line) THEN "false"
    ELSE IF Len(m.latestStartCmdBuf) = 0 THEN "first"
    ELSE IF m.latestStartCmdBuf = Take(line, lenPrefix) THEN "false"
    ELSE IF StrCompare(Take(line, lenPrefix), m.latestStartCmdBuf) <= 0 THEN "false"
    ELSE "later"

\* The first start line: its prefix and time are stored.
detectorFirst(m, line) ==
    [m EXCEPT !.latestStartCmdBuf = Take(line, lenPrefix),
              !.timeLatestStartCmd = LineTime(line)]

\* detectorUpdates with the 3 seconds of the notification for the interval.
detectorUpdatesEveryGap(m, cfg, line) ==
    TimeSub(LineTime(line), m.timeLatestStartCmd) >= NotifyGap

\* detectorUpdates with > for >=.
detectorUpdatesStrict(m, cfg, line) ==
    TimeSub(LineTime(line), m.timeLatestStartCmd) > cfg.UpdateInterval

\* detectorNotifies with a gap of a minute for 3 seconds.
detectorNotifiesMinute(m, line) ==
    TimeSub(LineTime(line), m.timeLatestStartCmd) >= 20 * NotifyGap

\* Whether dt is sent on timeChan.
detectorNotifies(m, line) ==
    TimeSub(LineTime(line), m.timeLatestStartCmd) >= NotifyGap

\* Whether historicalUpdateRequired returns true.
detectorUpdates(m, cfg, line) ==
    TimeSub(LineTime(line), m.timeLatestStartCmd) >= cfg.UpdateInterval

\* The detector advanced to the line.
detectorAdvance(m, line) ==
    [m EXCEPT !.timeLatestStartCmd = LineTime(line),
              !.latestStartCmdBuf = Take(line, lenPrefix)]

\* ------------------------------------------------------------------- state

VARIABLES
    cfg,            \* the configuration of the run
    p4m,            \* the P4DMetrics value: aggregates and detector state
    pc,             \* where the goroutine of ProcessEvents is
    cur,            \* what its current handler holds: a line, a command, a snapshot
    fpLinesChan,    \* lines forwarded to the parser and not yet taken by it
    fpLinesClosed,  \* close(fpLinesChan) has been called
    fpLinesNil,     \* the goroutine's fpLinesChan variable is nil
    timeChan,       \* times sent to the parser and not yet taken by it
    metricsChan,    \* snapshots sent and not yet taken by the sink
    metricsClosed,  \* close(metricsChan) has run
    cmdsOutChan,    \* commands passed on and not yet taken by the consumer
    cmdsOutClosed,  \* close(cmdsOutChan) has run
    linesInClosed,  \* the source has closed linesInChan
    cmdsInClosed,   \* the parser has closed cmdsInChan
    cancelled,      \* ctx is done
    fpPending,      \* the parser's pending commands (fp.CmdsPendingCount())
    nLines,         \* lines the source has delivered
    nCmds,          \* commands the parser has delivered
    nTicks,         \* ticks taken in live mode
    emitted,        \* history: every snapshot sent on metricsChan, in order
    window,         \* history: the commands recorded since the last reset
    closeCalls,     \* history: the number of calls of close(fpLinesChan)
    tracing,        \* whether the run keeps the four histories below
    linesTaken,     \* history: the lines taken from linesInChan, in order
    linesSent,      \* history: the lines sent on fpLinesChan, in order
    cmdsTaken,      \* history: the commands taken from cmdsInChan, in order
    cmdsSent        \* history: the commands sent on cmdsOutChan, in order

vars ==
    << cfg, p4m, pc, cur, fpLinesChan, fpLinesClosed, fpLinesNil, timeChan,
       metricsChan, metricsClosed, cmdsOutChan, cmdsOutClosed, linesInClosed,
       cmdsInClosed, cancelled, fpPending, nLines, nCmds, nTicks, emitted,
       window, closeCalls, tracing, linesTaken, linesSent, cmdsTaken, cmdsSent >>

\* The histories of the lines and commands that went through the goroutine.
hist == << linesTaken, linesSent, cmdsTaken, cmdsSent >>

\* History h with x added, in a run that keeps its histories.
Traced(h, x) == IF tracing THEN Append(h, x) ELSE h

\* The variables of the channels and of the tasks around the goroutine.
chans ==
    << fpLinesChan, fpLinesClosed, fpLinesNil, timeChan, metricsChan, metricsClosed,
       cmdsOutChan, cmdsOutClosed >>

env == << linesInClosed, cmdsInClosed, cancelled, fpPending >>

counts == << nLines, nCmds, nTicks >>

None == << >>

Init ==
    /\ cfg \in Configs
    /\ p4m = NewP4DMetrics
    /\ pc = "select"
    /\ cur = None
    /\ fpLinesChan = << >>
    /\ fpLinesClosed = FALSE
    /\ fpLinesNil = FALSE
    /\ timeChan = << >>
    /\ metricsChan = << >>
    /\ metricsClosed = FALSE
    /\ cmdsOutChan = << >>
    /\ cmdsOutClosed = FALSE
    /\ linesInClosed = FALSE
    /\ cmdsInClosed = FALSE
    /\ cancelled = FALSE
    /\ fpPending = 0
    /\ nLines = 0
    /\ nCmds = 0
    /\ nTicks = 0
    /\ emitted = << >>
    /\ window = << >>
    /\ closeCalls = 0
    /\ tracing = FALSE
    /\ linesTaken = << >> /\ linesSent = << >> /\ cmdsTaken = << >> /\ cmdsSent = << >>

\* ------------------------------------------- the goroutine of ProcessEvents

\* What a handler holds once it has decided to flush: the snapshot rendered at
\* that point, and (history) the commands recorded since the last reset and
\* the number of commands received so far.
Flush(kind, m) ==
    [kind |-> kind, snap |-> getCumulativeMetrics(m, cfg, fpPending),
     window |-> window, processed |-> nCmds]

\* The deferred closes that run when the goroutine returns.
CloseOutputs ==
    /\ metricsClosed' = TRUE
    /\ cmdsOutClosed' = cfg.needCmdChan

\* OnDone returning without the closes.
OnDoneNoClose ==
    /\ pc = "select"
    /\ cancelled
    /\ pc' = "done"
    /\ UNCHANGED << tracing, hist, cfg, p4m, cur, chans, env, counts, emitted, window,
                    closeCalls >>

\* OnDone flushing before it returns.
OnDoneFlush ==
    /\ pc = "select"
    /\ cancelled
    /\ metricsChan' = Append(metricsChan, Flush("final", p4m).snap)
    /\ emitted' = Append(emitted, Flush("final", p4m))
    /\ pc' = "done"
    /\ CloseOutputs
    /\ UNCHANGED << tracing, hist, cfg, p4m, cur, fpLinesChan, fpLinesClosed,
                    fpLinesNil, timeChan, cmdsOutChan, env, counts, window,
                    closeCalls >>

\* case <-ctx.Done(): return
OnDone ==
    /\ pc = "select"
    /\ cancelled
    /\ pc' = "done"
    /\ CloseOutputs
    /\ UNCHANGED << tracing, hist, cfg, p4m, cur, fpLinesChan, fpLinesClosed,
                    fpLinesNil, timeChan, metricsChan, cmdsOutChan, env, counts,
                    emitted, window, closeCalls >>

\* OnTick resetting before it renders.
OnTickResetFirst ==
    /\ pc = "select"
    /\ nTicks < MaxTicks
    /\ IF ~cfg.historical
       THEN /\ cur' = Flush("tick", resetToZero(p4m))
            /\ pc' = "sendTick"
            /\ nTicks' = nTicks + 1
            /\ UNCHANGED << tracing, hist, cfg, p4m, chans, env, nLines, nCmds, emitted,
                            window, closeCalls >>
       ELSE UNCHANGED vars

\* OnTick without the test of p4m.historical.
OnTickAnyMode ==
    /\ pc = "select"
    /\ nTicks < MaxTicks
    /\ cur' = Flush("tick", p4m)
    /\ pc' = "sendTick"
    /\ nTicks' = nTicks + 1
    /\ UNCHANGED << tracing, hist, cfg, p4m, chans, env, nLines, nCmds, emitted, window,
                    closeCalls >>

\* case <-ticker.C: in live mode the snapshot is rendered and its send begins;
\* in historical mode the tick is dropped (a run with histories counts it).
OnTick ==
    /\ pc = "select"
    /\ nTicks < MaxTicks
    /\ IF ~cfg.historical
       THEN /\ cur' = Flush("tick", p4m)
            /\ pc' = "sendTick"
            /\ nTicks' = nTicks + 1
            /\ UNCHANGED << tracing, hist, cfg, p4m, chans, env, nLines, nCmds, emitted,
                            window, closeCalls >>
       ELSE /\ nTicks' = IF tracing THEN nTicks + 1 ELSE nTicks
            /\ UNCHANGED << tracing, hist, cfg, p4m, pc, cur, chans, env, nLines, nCmds,
                            emitted, window, closeCalls >>

\* metricsChan <- p4m.getCumulativeMetrics(); p4m.resetToZero()
SendTick ==
    /\ pc = "sendTick"
    /\ Len(metricsChan) < MetricsCap
    /\ metricsChan' = Append(metricsChan, cur.snap)
    /\ emitted' = Append(emitted, cur)
    /\ p4m' = resetToZero(p4m)
    /\ window' = << >>
    /\ cur' = None
    /\ pc' = "select"
    /\ UNCHANGED << tracing, hist, cfg, fpLinesChan, fpLinesClosed, fpLinesNil,
                    timeChan, metricsClosed, cmdsOutChan, cmdsOutClosed, env, counts,
                    closeCalls >>

\* OnCmd never passing the command on.
OnCmdNoForward(cmd) ==
    /\ pc = "select"
    /\ ~cmdsInClosed
    /\ fpPending > 0
    /\ nCmds < MaxCmds
    /\ p4m' = publishEvent([p4m EXCEPT !.cmdsProcessed = @ + 1], cfg, cmd)
    /\ window' = Append(window, cmd)
    /\ fpPending' = fpPending - 1
    /\ nCmds' = nCmds + 1
    /\ cur' = None /\ pc' = "select"
    /\ cmdsTaken' = Traced(cmdsTaken, cmd)
    /\ UNCHANGED << tracing, linesTaken, linesSent, cmdsSent, cfg, chans, linesInClosed,
                    cmdsInClosed, cancelled, nLines, nTicks, emitted, closeCalls >>

\* case cmd, ok := <-cmdsInChan with ok: the parser hands over a completed
\* command, which is counted and recorded; with needCmdChan its send begins.
OnCmd(cmd) ==
    /\ pc = "select"
    /\ ~cmdsInClosed
    /\ fpPending > 0
    /\ nCmds < MaxCmds
    /\ p4m' = publishEvent([p4m EXCEPT !.cmdsProcessed = @ + 1], cfg, cmd)
    /\ window' = Append(window, cmd)
    /\ fpPending' = fpPending - 1
    /\ nCmds' = nCmds + 1
    /\ IF cfg.needCmdChan
       THEN cur' = cmd /\ pc' = "sendCmdOut"
       ELSE cur' = None /\ pc' = "select"
    /\ cmdsTaken' = Traced(cmdsTaken, cmd)
    /\ UNCHANGED << tracing, linesTaken, linesSent, cmdsSent, cfg, chans, linesInClosed,
                    cmdsInClosed, cancelled, nLines, nTicks, emitted, closeCalls >>

\* cmdsOutChan <- cmd
SendCmdOut ==
    /\ pc = "sendCmdOut"
    /\ Len(cmdsOutChan) < CmdsOutCap
    /\ cmdsOutChan' = Append(cmdsOutChan, cur)
    /\ cur' = None
    /\ pc' = "select"
    /\ cmdsSent' = Traced(cmdsSent, cur)
    /\ UNCHANGED << tracing, linesTaken, linesSent, cmdsTaken, cfg, p4m, fpLinesChan,
                    fpLinesClosed, fpLinesNil, timeChan, metricsChan, metricsClosed,
                    cmdsOutClosed, env, counts, emitted, window, closeCalls >>

\* case cmd, ok := <-cmdsInChan with !ok: the final snapshot is rendered.
OnCmdsClosed ==
    /\ pc = "select"
    /\ cmdsInClosed
    /\ cur' = Flush("final", p4m)
    /\ pc' = "sendFinal"
    /\ UNCHANGED << tracing, hist, cfg, p4m, chans, env, counts, emitted, window,
                    closeCalls >>

\* SendFinal without the return: the loop goes on.
SendFinalNoReturn ==
    /\ pc = "sendFinal"
    /\ Len(metricsChan) < MetricsCap
    /\ metricsChan' = Append(metricsChan, cur.snap)
    /\ emitted' = Append(emitted, cur)
    /\ cur' = None
    /\ pc' = "select"
    /\ UNCHANGED << tracing, hist, cfg, p4m, fpLinesChan, fpLinesClosed, fpLinesNil,
                    timeChan, metricsClosed, cmdsOutChan, cmdsOutClosed, env, counts,
                    window, closeCalls >>

\* metricsChan <- p4m.getCumulativeMetrics(); return
SendFinal ==
    /\ pc = "sendFinal"
    /\ Len(metricsChan) < MetricsCap
    /\ metricsChan' = Append(metricsChan, cur.snap)
    /\ emitted' = Append(emitted, cur)
    /\ cur' = None
    /\ pc' = "done"
    /\ CloseOutputs
    /\ UNCHANGED << tracing, hist, cfg, p4m, fpLinesChan, fpLinesClosed, fpLinesNil,
                    timeChan, cmdsOutChan, env, counts, window, closeCalls >>

\* OnLine dropping a line shorter than the timestamp prefix instead of
\* forwarding it.
OnLineDropsShort(line) ==
    /\ pc = "select"
    /\ ~linesInClosed
    /\ nLines < MaxLines
    /\ p4m' = [p4m EXCEPT !.linesRead = @ + 1]
    /\ IF Len(line) < lenPrefix
       THEN cur' = None /\ pc' = "select"
       ELSE cur' = line /\ pc' = "sendLine"
    /\ nLines' = nLines + 1
    /\ linesTaken' = Traced(linesTaken, line)
    /\ UNCHANGED << tracing, linesSent, cmdsTaken, cmdsSent, cfg, chans, env, nCmds,
                    nTicks, emitted, window, closeCalls >>

\* case line, ok := <-linesInChan with ok: the line is counted and its send to
\* the parser begins.
OnLine(line) ==
    /\ pc = "select"
    /\ ~linesInClosed
    /\ nLines < MaxLines
    /\ p4m' = [p4m EXCEPT !.linesRead = @ + 1]
    /\ cur' = line
    /\ pc' = "sendLine"
    /\ nLines' = nLines + 1
    /\ linesTaken' = Traced(linesTaken, line)
    /\ UNCHANGED << tracing, linesSent, cmdsTaken, cmdsSent, cfg, chans, env, nCmds,
                    nTicks, emitted, window, closeCalls >>

\* AfterNotify storing the line's prefix and time whether or not it updates.
AfterNotifyAlwaysStores(m) ==
    IF detectorUpdates(m, cfg, cur)
    THEN /\ p4m' = detectorAdvance(m, cur)
         /\ cur' = Flush("boundary", detectorAdvance(m, cur))
         /\ pc' = "sendBoundary"
    ELSE /\ p4m' = detectorAdvance(m, cur)
         /\ cur' = None
         /\ pc' = "select"

\* AfterNotify rendering the snapshot before the stored time advances.
AfterNotifyRendersFirst(m) ==
    IF detectorUpdates(m, cfg, cur)
    THEN /\ p4m' = detectorAdvance(m, cur)
         /\ cur' = Flush("boundary", m)
         /\ pc' = "sendBoundary"
    ELSE /\ p4m' = m
         /\ cur' = None
         /\ pc' = "select"

\* historicalUpdateRequired from its second comparison of times on, and the
\* caller's snapshot when it returns true: from aggregates m.
AfterNotify(m) ==
    IF detectorUpdates(m, cfg, cur)
    THEN /\ p4m' = detectorAdvance(m, cur)
         /\ cur' = Flush("boundary", detectorAdvance(m, cur))
         /\ pc' = "sendBoundary"
    ELSE /\ p4m' = m
         /\ cur' = None
         /\ pc' = "select"

\* fpLinesChan <- line, then historicalUpdateRequired(line) up to its send on
\* timeChan.
SendLine ==
    /\ pc = "sendLine"
    /\ Len(fpLinesChan) < FpLinesCap
    /\ fpLinesChan' = Append(fpLinesChan, cur)
    /\ LET scan == detectorScan(p4m, cfg, cur)
       IN  IF scan = "false"
           THEN p4m' = p4m /\ cur' = None /\ pc' = "select"
           ELSE IF scan = "first"
           THEN p4m' = detectorFirst(p4m, cur) /\ cur' = None /\ pc' = "select"
           ELSE IF detectorNotifies(p4m, cur)
           THEN p4m' = p4m /\ cur' = cur /\ pc' = "sendTime"
           ELSE AfterNotify(p4m)
    /\ linesSent' = Traced(linesSent, cur)
    /\ UNCHANGED << tracing, linesTaken, cmdsTaken, cmdsSent, cfg, fpLinesClosed,
                    fpLinesNil, timeChan, metricsChan, metricsClosed, cmdsOutChan,
                    cmdsOutClosed, env, counts, emitted, window, closeCalls >>

\* p4m.timeChan <- dt, and the rest of historicalUpdateRequired. timeChan is
\* nil in live mode, where a send on it would block for ever.
SendTime ==
    /\ pc = "sendTime"
    /\ cfg.historical
    /\ Len(timeChan) < TimeChanCap
    /\ timeChan' = Append(timeChan, LineTime(cur))
    /\ AfterNotify(p4m)
    /\ UNCHANGED << tracing, hist, cfg, fpLinesChan, fpLinesClosed, fpLinesNil,
                    metricsChan, metricsClosed, cmdsOutChan, cmdsOutClosed, env, counts,
                    emitted, window, closeCalls >>

\* metricsChan <- p4m.getCumulativeMetrics() after an update
SendBoundary ==
    /\ pc = "sendBoundary"
    /\ Len(metricsChan) < MetricsCap
    /\ metricsChan' = Append(metricsChan, cur.snap)
    /\ emitted' = Append(emitted, cur)
    /\ cur' = None
    /\ pc' = "select"
    /\ UNCHANGED << tracing, hist, cfg, p4m, fpLinesChan, fpLinesClosed, fpLinesNil,
                    timeChan, metricsClosed, cmdsOutChan, cmdsOutClosed, env, counts,
                    window, closeCalls >>

\* OnLinesClosed dropping its reference to fpLinesChan without closing it.
OnLinesClosedNoClose ==
    /\ pc = "select"
    /\ linesInClosed
    /\ IF ~fpLinesNil
       THEN /\ fpLinesNil' = TRUE
            /\ UNCHANGED << tracing, hist, cfg, p4m, pc, cur, fpLinesChan,
                            fpLinesClosed, timeChan, metricsChan, metricsClosed,
                            cmdsOutChan, cmdsOutClosed, env, counts, emitted, window,
                            closeCalls >>
       ELSE UNCHANGED vars

\* OnLinesClosed without the assignment fpLinesChan = nil.
OnLinesClosedNoNil ==
    /\ pc = "select"
    /\ linesInClosed
    /\ fpLinesClosed' = TRUE
    /\ closeCalls' = closeCalls + 1
    /\ UNCHANGED << tracing, hist, cfg, p4m, pc, cur, fpLinesChan, fpLinesNil, timeChan,
                    metricsChan, metricsClosed, cmdsOutChan, cmdsOutClosed, env, counts,
                    emitted, window >>

\* case line, ok := <-linesInChan with !ok: fpLinesChan is closed and set to
\* nil the first time; the closed linesInChan stays ready, and later
\* selections of it find fpLinesChan nil.
OnLinesClosed ==
    /\ pc = "select"
    /\ linesInClosed
    /\ IF ~fpLinesNil
       THEN /\ fpLinesClosed' = TRUE
            /\ fpLinesNil' = TRUE
            /\ closeCalls' = closeCalls + 1
            /\ UNCHANGED << tracing, hist, cfg, p4m, pc, cur, fpLinesChan, timeChan,
                            metricsChan, metricsClosed, cmdsOutChan, cmdsOutClosed, env,
                            counts, emitted, window >>
       ELSE UNCHANGED vars

\* ------------------------------------------------- the tasks around it

\* The source closes linesInChan.
SourceClose ==
    /\ ~linesInClosed
    /\ linesInClosed' = TRUE
    /\ UNCHANGED << tracing, hist, cfg, p4m, pc, cur, chans, cmdsInClosed, cancelled,
                    fpPending, counts, emitted, window, closeCalls >>

\* The caller cancels ctx.
Cancel ==
    /\ ~cancelled
    /\ cancelled' = TRUE
    /\ UNCHANGED << tracing, hist, cfg, p4m, pc, cur, chans, linesInClosed,
                    cmdsInClosed, fpPending, counts, emitted, window, closeCalls >>

\* The parser takes a forwarded line; a start line opens a pending command.
ParserRecvLine ==
    /\ fpLinesChan # << >>
    /\ fpLinesChan' = Tail(fpLinesChan)
    /\ fpPending' = IF IsStartLine(Head(fpLinesChan)) THEN fpPending + 1 ELSE fpPending
    /\ UNCHANGED << tracing, hist, cfg, p4m, pc, cur, fpLinesClosed, fpLinesNil,
                    timeChan, metricsChan, metricsClosed, cmdsOutChan, cmdsOutClosed,
                    linesInClosed, cmdsInClosed, cancelled, counts, emitted, window,
                    closeCalls >>

\* The parser takes a time notification.
ParserRecvTime ==
    /\ timeChan # << >>
    /\ timeChan' = Tail(timeChan)
    /\ UNCHANGED << tracing, hist, cfg, p4m, pc, cur, fpLinesChan, fpLinesClosed,
                    fpLinesNil, metricsChan, metricsClosed, cmdsOutChan, cmdsOutClosed,
                    env, counts, emitted, window, closeCalls >>

\* The parser closes cmdsInChan once its input is closed and drained.
ParserClose ==
    /\ fpLinesClosed
    /\ fpLinesChan = << >>
    /\ ~cmdsInClosed
    /\ cmdsInClosed' = TRUE
    /\ UNCHANGED << tracing, hist, cfg, p4m, pc, cur, chans, linesInClosed, cancelled,
                    fpPending, counts, emitted, window, closeCalls >>

\* SinkRecvMetrics with the reset done by the sink when it takes a snapshot.
SinkRecvMetricsResets ==
    /\ metricsChan # << >>
    /\ metricsChan' = Tail(metricsChan)
    /\ p4m' = IF cfg.historical THEN p4m ELSE resetToZero(p4m)
    /\ UNCHANGED << tracing, hist, cfg, pc, cur, fpLinesChan, fpLinesClosed,
                    fpLinesNil, timeChan, metricsClosed, cmdsOutChan, cmdsOutClosed,
                    env, counts, emitted, window, closeCalls >>

\* The sink takes a snapshot.
SinkRecvMetrics ==
    /\ metricsChan # << >>
    /\ metricsChan' = Tail(metricsChan)
    /\ UNCHANGED << tracing, hist, cfg, p4m, pc, cur, fpLinesChan, fpLinesClosed,
                    fpLinesNil, timeChan, metricsClosed, cmdsOutChan, cmdsOutClosed,
                    env, counts, emitted, window, closeCalls >>

\* The consumer of individual records takes a command.
SinkRecvCmd ==
    /\ cmdsOutChan # << >>
    /\ cmdsOutChan' = Tail(cmdsOutChan)
    /\ UNCHANGED << tracing, hist, cfg, p4m, pc, cur, fpLinesChan, fpLinesClosed,
                    fpLinesNil, timeChan, metricsChan, metricsClosed, cmdsOutClosed,
                    env, counts, emitted, window, closeCalls >>

Next ==
    \/ OnDone
    \/ OnTick
    \/ SendTick
    \/ \E cmd \in Commands : OnCmd(cmd)
    \/ SendCmdOut
    \/ OnCmdsClosed
    \/ SendFinal
    \/ \E line \in Lines : OnLine(line)
    \/ SendLine
    \/ SendTime
    \/ SendBoundary
    \/ OnLinesClosed
    \/ SourceClose
    \/ Cancel
    \/ ParserRecvLine
    \/ ParserRecvTime
    \/ ParserClose
    \/ SinkRecvMetrics
    \/ SinkRecvCmd

Spec == Init /\ [][Next]_vars

\* ------------------------------------------ the run without cancellation

\* The run in which ctx is never cancelled.
NextGraceful ==
    \/ OnTick
    \/ SendTick
    \/ \E cmd \in Commands : OnCmd(cmd)
    \/ SendCmdOut
    \/ OnCmdsClosed
    \/ SendFinal
    \/ \E line \in Lines : OnLine(line)
    \/ SendLine
    \/ SendTime
    \/ SendBoundary
    \/ OnLinesClosed
    \/ SourceClose
    \/ ParserRecvLine
    \/ ParserRecvTime
    \/ ParserClose
    \/ SinkRecvMetrics
    \/ SinkRecvCmd

\* The scheduling the code and its surroundings give: a select takes a case
\* that is ready again and again (it chooses among the ready cases at
\* random), a send goes through once its channel has room, and the parser and
\* the sinks keep taking what is sent to them. Nothing obliges the source to
\* deliver or close, the ticker to tick or the parser to complete a command.
Fairness ==
    /\ SF_vars(OnCmdsClosed)
    /\ SF_vars(OnLinesClosed)
    /\ WF_vars(SendTick)
    /\ WF_vars(SendCmdOut)
    /\ WF_vars(SendFinal)
    /\ WF_vars(SendLine)
    /\ WF_vars(SendTime)
    /\ WF_vars(SendBoundary)
    /\ WF_vars(ParserRecvLine)
    /\ WF_vars(ParserRecvTime)
    /\ WF_vars(ParserClose)
    /\ WF_vars(SinkRecvMetrics)
    /\ WF_vars(SinkRecvCmd)

SpecGraceful == Init /\ [][NextGraceful]_vars /\ Fairness

\* ------------------------------------------------ the run with histories

\* The configurations of the runs that keep their histories: the live and
\* the historical one in which cmdsOutChan is asked for.
TraceConfigs == { c \in Configs : c.needCmdChan }

\* The start of a run that keeps the histories of its lines and commands.
InitTrace ==
    /\ cfg \in TraceConfigs
    /\ p4m = NewP4DMetrics
    /\ pc = "select"
    /\ cur = None
    /\ fpLinesChan = << >> /\ fpLinesClosed = FALSE /\ fpLinesNil = FALSE
    /\ timeChan = << >>
    /\ metricsChan = << >> /\ metricsClosed = FALSE
    /\ cmdsOutChan = << >> /\ cmdsOutClosed = FALSE
    /\ linesInClosed = FALSE /\ cmdsInClosed = FALSE /\ cancelled = FALSE
    /\ fpPending = 0
    /\ nLines = 0 /\ nCmds = 0 /\ nTicks = 0
    /\ emitted = << >> /\ window = << >> /\ closeCalls = 0
    /\ tracing = TRUE
    /\ linesTaken = << >> /\ linesSent = << >> /\ cmdsTaken = << >> /\ cmdsSent = << >>

SpecTrace == InitTrace /\ [][Next]_vars

\* --------------------------------------------------- the aggregator alone

\* The number of records published in a run of the aggregator alone.
MaxRecords == 2

\* Further command records: an IP that starts with "/", an IP with two "/",
\* an empty IP, tables named "trigger_" (the bare prefix), "trigger_t",
\* "triggers" and "", and program names with characters outside the
\* allow-list and with " (brokered)" nested in itself.
CmdLeadingSlash == [CmdEdit EXCEPT !.IP = Str("/10.0.0.5")]

CmdTwoSlashes == [CmdSyncRelay EXCEPT !.IP = Str("r1/r2/10.0.0.5")]

CmdNoIP == [CmdEdit EXCEPT !.IP = << >>, !.App = Str("a=b c;d!e\"f^g'h")]

CmdBareTrigger ==
    [CmdEdit EXCEPT !.Tables = << Table("trigger_", 1, 2, 3, 4, 500),
                                  Table("trigger_t", 5, 6, 7, 8, 700),
                                  Table("triggers", 9, 10, 11, 12, 900),
                                  Table("", 13, 14, 15, 16, 1100) >>]

CmdNested == [CmdSyncRelay EXCEPT !.App = Str("p4 (bro (brokered)kered) x")]

CmdSanitized == [CmdNested EXCEPT !.App = ProgramLabel(CmdNested.App)]

RecordCommands ==
    Commands \cup { CmdLeadingSlash, CmdTwoSlashes, CmdNoIP, CmdBareTrigger, CmdNested,
                    CmdSanitized }

\* p4m.publishEvent(cmd)
Record(cmd) ==
    /\ nCmds < MaxRecords
    /\ p4m' = publishEvent(p4m, cfg, cmd)
    /\ cur' = cmd
    /\ window' = Append(window, cmd)
    /\ nCmds' = nCmds + 1
    /\ cmdsTaken' = Traced(cmdsTaken, cmd)
    /\ UNCHANGED << tracing, linesTaken, linesSent, cmdsSent, cfg, pc, chans, env,
                    nLines, nTicks, emitted, closeCalls >>

\* p4m.resetToZero()
ResetToZero ==
    /\ window # << >>
    /\ p4m' = resetToZero(p4m)
    /\ cur' = None
    /\ window' = << >>
    /\ UNCHANGED << tracing, hist, cfg, pc, chans, env, counts, emitted, closeCalls >>

NextAggregator ==
    \/ \E cmd \in RecordCommands : Record(cmd)
    \/ ResetToZero

SpecAggregator == Init /\ [][NextAggregator]_vars

\* ------------------------------------------------ the program label alone

\* Program names: every concatenation of three of these pieces, among them
\* " (brokered)" whole, split and nested in itself, characters outside the
\* allow-list and characters of it.
NamePieces ==
    { << >>, Str(" (brokered)"), Str(" (bro"), Str("kered)"), Str("p4"), Str(" "),
      Str(";="), Str("_\\") }

ProgramNames == { a \o b \o c : a, b, c \in NamePieces }

\* Fresh aggregates, and a program name in cur.
InitProgram ==
    /\ cfg \in Configs
    /\ p4m = NewP4DMetrics
    /\ pc = "select"
    /\ cur \in ProgramNames
    /\ fpLinesChan = << >> /\ fpLinesClosed = FALSE /\ fpLinesNil = FALSE
    /\ timeChan = << >>
    /\ metricsChan = << >> /\ metricsClosed = FALSE
    /\ cmdsOutChan = << >> /\ cmdsOutClosed = FALSE
    /\ linesInClosed = FALSE /\ cmdsInClosed = FALSE /\ cancelled = FALSE
    /\ fpPending = 0
    /\ nLines = 0 /\ nCmds = 0 /\ nTicks = 0
    /\ emitted = << >> /\ window = << >> /\ closeCalls = 0
    /\ tracing = FALSE
    /\ linesTaken = << >> /\ linesSent = << >> /\ cmdsTaken = << >> /\ cmdsSent = << >>

\* publishEvent of a command whose program name is cur; the name is then
\* replaced by the label it was counted under.
RecordProgram ==
    /\ nCmds < MaxRecords
    /\ p4m' = publishEvent(p4m, cfg, [CmdEdit EXCEPT !.App = cur])
    /\ cur' = ProgramLabel(cur)
    /\ window' = Append(window, [CmdEdit EXCEPT !.App = cur])
    /\ nCmds' = nCmds + 1
    /\ UNCHANGED << tracing, hist, cfg, pc, chans, env, nLines, nTicks, emitted,
                    closeCalls >>

NextProgram == RecordProgram

SpecProgram == InitProgram /\ [][NextProgram]_vars

\* -------------------------------------------------- the formatter alone

\* The inputs of the formatter: a metric name, the help and type of its
\* family, and one or two samples, each a label list and a printed value.
\* The first sample has up to three labels in the order serverid, sdpinst,
\* cmd, each with a value that is empty, plain or holds a backslash.
MetricNames == { Str("p4_cmd_counter"), Str("p4_cmd_running") }

LabelNames == << Str("serverid"), Str("sdpinst"), Str("cmd") >>

LabelValues == { << >>, Str("sync"), Str("a\\b") }

LabelLists ==
    UNION { { [ i \in 1..n |-> labelStruct(LabelNames[i], v[i]) ] :
                v \in [ 1..n -> LabelValues ] } : n \in 0..3 }

MetricVals == { Str("5"), Str("0.250") }

SecondSample == [labels |-> << labelStruct(Str("user"), Str("amy")) >>, metricVal |-> Str("7")]

FormatInputs ==
    { [mname |-> n, help |-> Str("A count"), metricType |-> Str("gauge"),
       samples |-> << [labels |-> l, metricVal |-> v] >> \o rest] :
        n \in MetricNames, l \in LabelLists, v \in MetricVals,
        rest \in { << >>, << SecondSample >> } }

\* The start line whose time is 1700000000.
LineT1700000000 == Stamp(2023, 11, 14, 22, 13, 20)

\* Aggregates as the detector leaves them: untouched in a live run; in a
\* historical run untouched or with the prefix and time of a start line.
InitFormat ==
    /\ cfg \in Configs
    /\ p4m \in { NewP4DMetrics }
                 \cup { detectorFirst(NewP4DMetrics, l) :
                          l \in IF cfg.historical THEN { LineT0, LineT1700000000 } ELSE {} }
    /\ pc = "select"
    /\ cur \in FormatInputs
    /\ fpLinesChan = << >> /\ fpLinesClosed = FALSE /\ fpLinesNil = FALSE
    /\ timeChan = << >>
    /\ metricsChan = << >> /\ metricsClosed = FALSE
    /\ cmdsOutChan = << >> /\ cmdsOutClosed = FALSE
    /\ linesInClosed = FALSE /\ cmdsInClosed = FALSE /\ cancelled = FALSE
    /\ fpPending = 0
    /\ nLines = 0 /\ nCmds = 0 /\ nTicks = 0
    /\ emitted = << >> /\ window = << >> /\ closeCalls = 0
    /\ tracing = FALSE
    /\ linesTaken = << >> /\ linesSent = << >> /\ cmdsTaken = << >> /\ cmdsSent = << >>

\* The metric lines of the samples from sample i on.
RECURSIVE formatSamples(_, _, _, _, _)
formatSamples(m, c, mname, samples, i) ==
    IF i > Len(samples) THEN << >>
    ELSE formatMetric(m, c, mname, samples[i].labels, samples[i].metricVal)
             \o formatSamples(m, c, mname, samples, i + 1)

\* printMetricHeader, then formatMetric for every sample of the family: the
\* text is what the snapshot carries for the family.
FormatFamily ==
    /\ metricsChan = << >>
    /\ metricsChan' =
          << printMetricHeader(cfg, cur.mname, cur.help, cur.metricType)
                 \o formatSamples(p4m, cfg, cur.mname, cur.samples, 1) >>
    /\ UNCHANGED << tracing, hist, cfg, p4m, pc, cur, fpLinesChan, fpLinesClosed,
                    fpLinesNil, timeChan, metricsClosed, cmdsOutChan, cmdsOutClosed,
                    env, counts, emitted, window, closeCalls >>

NextFormat == FormatFamily

SpecFormat == InitFormat /\ [][NextFormat]_vars

\* --------------------------------------------------- the snapshot alone

\* The number of snapshots rendered in a run of the snapshot alone.
MaxSnapshots == 2

\* The configurations of those runs: both dialects, each output flag set and
\* unset, a user regex configured and not.
SnapshotConfigs ==
    { [Config(h, FALSE, 60) EXCEPT !.OutputCmdsByUser = u, !.OutputCmdsByIP = ip,
                                   !.OutputCmdsByUserRegex = re] :
        h \in BOOLEAN, u \in BOOLEAN, ip \in BOOLEAN, re \in { << >>, Str("bo") } }

InitSnapshot ==
    /\ cfg \in SnapshotConfigs
    /\ p4m = NewP4DMetrics
    /\ pc = "select"
    /\ cur = None
    /\ fpLinesChan = << >>
    /\ fpLinesClosed = FALSE
    /\ fpLinesNil = FALSE
    /\ timeChan = << >>
    /\ metricsChan = << >>
    /\ metricsClosed = FALSE
    /\ cmdsOutChan = << >>
    /\ cmdsOutClosed = FALSE
    /\ linesInClosed = FALSE
    /\ cmdsInClosed = FALSE
    /\ cancelled = FALSE
    /\ fpPending = 0
    /\ nLines = 0
    /\ nCmds = 0
    /\ nTicks = 0
    /\ emitted = << >>
    /\ window = << >>
    /\ closeCalls = 0
    /\ tracing = TRUE
    /\ linesTaken = << >> /\ linesSent = << >> /\ cmdsTaken = << >> /\ cmdsSent = << >>

\* p4m.getCumulativeMetrics()
Snapshot ==
    /\ Len(emitted) < MaxSnapshots
    /\ emitted' = Append(emitted, Flush(IF cfg.historical THEN "boundary" ELSE "tick", p4m))
    /\ UNCHANGED << tracing, hist, cfg, p4m, pc, cur, chans, env, counts, window,
                    closeCalls >>

\* Records, snapshots and, in live mode, resets in any order.
NextSnapshot ==
    \/ \E cmd \in Commands : Record(cmd)
    \/ ~cfg.historical /\ ResetToZero
    \/ Snapshot

SpecSnapshot == InitSnapshot /\ [][NextSnapshot]_vars

\* --------------------------------------------------- the detector alone

\* The number of lines scanned in a run of the detector alone.
MaxDetectorLines == 3

InitDetector ==
    /\ cfg \in { c \in Configs : c.historical }
    /\ p4m = NewP4DMetrics
    /\ pc = "select"
    /\ cur = None
    /\ fpLinesChan = << >>
    /\ fpLinesClosed = FALSE
    /\ fpLinesNil = FALSE
    /\ timeChan = << >>
    /\ metricsChan = << >>
    /\ metricsClosed = FALSE
    /\ cmdsOutChan = << >>
    /\ cmdsOutClosed = FALSE
    /\ linesInClosed = FALSE
    /\ cmdsInClosed = FALSE
    /\ cancelled = FALSE
    /\ fpPending = 0
    /\ nLines = 0
    /\ nCmds = 0
    /\ nTicks = 0
    /\ emitted = << >>
    /\ window = << >>
    /\ closeCalls = 0
    /\ tracing = FALSE
    /\ linesTaken = << >> /\ linesSent = << >> /\ cmdsTaken = << >> /\ cmdsSent = << >>

\* p4m.historicalUpdateRequired(line), and the caller's snapshot when it
\* returns true. The few times sent fit timeChan and are left in it; the
\* snapshots are kept in emitted.
HistoricalUpdateRequired(line) ==
    /\ nLines < MaxDetectorLines
    /\ nLines' = nLines + 1
    /\ cur' = line
    /\ LET scan == detectorScan(p4m, cfg, line)
       IN  /\ timeChan' = IF scan = "later" /\ detectorNotifies(p4m, line)
                          THEN Append(timeChan, LineTime(line))
                          ELSE timeChan
           /\ IF scan = "first"
              THEN p4m' = detectorFirst(p4m, line) /\ emitted' = emitted
              ELSE IF scan = "later" /\ detectorUpdates(p4m, cfg, line)
              THEN /\ p4m' = detectorAdvance(p4m, line)
                   /\ emitted' = Append(emitted,
                                        Flush("boundary", detectorAdvance(p4m, line)))
              ELSE p4m' = p4m /\ emitted' = emitted
    /\ UNCHANGED << tracing, hist, cfg, pc, fpLinesChan, fpLinesClosed, fpLinesNil,
                    metricsChan, metricsClosed, cmdsOutChan, cmdsOutClosed, env, nCmds,
                    nTicks, window, closeCalls >>

NextDetector == \E line \in Lines : HistoricalUpdateRequired(line)

SpecDetector == InitDetector /\ [][NextDetector]_vars

\* ------------------------------------------------------------------ claims

CmdNames == { c.Cmd : c \in Commands }

\* The number of records of seq whose command name is name.
CountCmd(seq, name) == Cardinality({ i \in 1..Len(seq) : seq[i].Cmd = name })

Last(seq) == seq[Len(seq)]

\* C1: in live mode the per-command count of every command name equals the
\* number of records with that name recorded since the last ticker flush (or
\* since the start); right after a ticker flush, when no record has been
\* recorded since, it is 0.
C1_CountSinceFlush ==
    ~cfg.historical =>
        \A c \in CmdNames : MapGet(p4m.cmdCounter, c) = CountCmd(window, c)

\* A ticker flush that counted a sync has been sent, and a sync recorded after
\* it is counted 1.
C1_Witness ==
    /\ ~cfg.historical
    /\ emitted # << >>
    /\ MapGet(SamplesOf(emitted[1].snap, "p4_cmd_counter"), Str("sync")) = 1
    /\ CountCmd(window, Str("sync")) = 1
    /\ MapGet(p4m.cmdCounter, Str("sync")) = 1

\* The cumulative-seconds aggregates and the commands-processed count.
CumulativeFields ==
    { "cmdCumulative", "cmduCPUCumulative", "cmdsCPUCumulative", "cmdByUserCumulative",
      "cmdByIPCumulative", "cmdByReplicaCumulative", "cmdByProgramCumulative" }

Cumulative(m) ==
    << [ f \in CumulativeFields |-> m[f] ], m.cmdByUserDetailCumulative, m.cmdsProcessed >>

\* Map b holds every key of map a with a value at least as large.
MapLeq(a, b) == \A k \in DOMAIN a : k \in DOMAIN b /\ a[k] <= b[k]

CumulativeLeq(m, n) ==
    /\ \A f \in CumulativeFields : MapLeq(m[f], n[f])
    /\ \A u \in DOMAIN m.cmdByUserDetailCumulative :
          /\ u \in DOMAIN n.cmdByUserDetailCumulative
          /\ MapLeq(m.cmdByUserDetailCumulative[u], n.cmdByUserDetailCumulative[u])
    /\ m.cmdsProcessed <= n.cmdsProcessed

\* The labels at which a handler is flushing: its snapshot is rendered and is
\* being sent.
FlushPcs == { "sendTick", "sendBoundary", "sendFinal" }

\* C2: no step decreases a cumulative-seconds aggregate or the
\* commands-processed count, in either mode, and the steps of a flush (the
\* one that renders the snapshot and the one that sends it, with the reset
\* of a ticker flush) leave all of them unchanged.
C2_CumulativeMonotonic ==
    [][ /\ CumulativeLeq(p4m, p4m')
        /\ (pc \in FlushPcs \/ pc' \in FlushPcs) => Cumulative(p4m') = Cumulative(p4m)
      ]_vars

\* After a ticker flush the sync count is back to 0 and its seconds are kept.
C2_Witness ==
    /\ ~cfg.historical
    /\ emitted # << >>
    /\ pc = "select"
    /\ MapGet(p4m.cmdCumulative, Str("sync")) = 1500
    /\ Str("sync") \in DOMAIN p4m.cmdCounter
    /\ p4m.cmdCounter[Str("sync")] = 0
    /\ p4m.cmdsProcessed = 1

\* Every sample of the families named in names that snapshot a prints is
\* printed by snapshot b with a value at least as large.
SnapLeq(a, b, names) ==
    \A i \in 1..Len(a.families) :
        a.families[i].name \in names =>
            MapLeq(a.families[i].samples, SamplesOf(b, a.families[i].name))

FamilyNames(snap) == { snap.families[i].name : i \in 1..Len(snap.families) }

\* The family that reports no aggregate of the engine: the pending count is
\* read from the parser.
ParserFamilies == { "p4_prom_cmds_pending" }

\* The family whose aggregate is not accumulated: cmdRunning is overwritten
\* by every record.
InstantFamilies == { "p4_cmd_running" }

\* C3 as stated: in historical mode every count and total of the aggregates
\* in a later snapshot is at least its value in every earlier snapshot.
C3_Original ==
    cfg.historical =>
        \A i, j \in 1..Len(emitted) :
            i < j => SnapLeq(emitted[i].snap, emitted[j].snap,
                             FamilyNames(emitted[i].snap) \ ParserFamilies)

\* C3, amended: in historical mode no aggregate is ever reset, so that every
\* accumulated count and total (every aggregate but the instantaneous
\* running-commands value) of a later snapshot is at least its value in
\* every earlier snapshot.
C3_NoResetHistorical ==
    cfg.historical =>
        \A i, j \in 1..Len(emitted) :
            i < j => SnapLeq(emitted[i].snap, emitted[j].snap,
                             FamilyNames(emitted[i].snap)
                                 \ (ParserFamilies \cup InstantFamilies))

\* Two snapshots of a historical run, the later one counting a command more.
C3_Witness ==
    /\ cfg.historical
    /\ Len(emitted) = 2
    /\ SamplesOf(emitted[1].snap, "p4_prom_cmds_processed")[<< >>] = 1
    /\ SamplesOf(emitted[2].snap, "p4_prom_cmds_processed")[<< >>] = 2
    /\ SamplesOf(emitted[1].snap, "p4_prom_log_lines_read")[<< >>] = 2

\* C4: a final snapshot is only sent once the line source and then the
\* command source have closed; it is the last snapshot ever sent and the loop
\* has stopped with its outputs closed; and a loop that stopped without
\* cancellation has sent exactly one.
C4_OneFinalSnapshot ==
    /\ \A i \in 1..Len(emitted) :
          emitted[i].kind = "final" =>
              /\ i = Len(emitted)
              /\ pc = "done"
              /\ linesInClosed /\ fpLinesClosed /\ cmdsInClosed
    /\ pc = "done" => metricsClosed /\ cmdsOutClosed = cfg.needCmdChan
    /\ pc = "done" /\ ~cancelled =>
          /\ emitted # << >>
          /\ Last(emitted).kind = "final"
          /\ Cardinality({ i \in 1..Len(emitted) : emitted[i].kind = "final" }) = 1

\* A run that ended without cancellation, its final snapshot following an
\* earlier one.
C4_Witness ==
    /\ pc = "done"
    /\ ~cancelled
    /\ Len(emitted) >= 2
    /\ Last(emitted).kind = "final"
    /\ emitted[1].kind # "final"
    /\ metricsClosed

\* C5 as stated: once ctx is cancelled no snapshot is sent and no line or
\* command is processed.
C5_Original ==
    [][ cancelled =>
          /\ emitted' = emitted
          /\ nLines' = nLines
          /\ nCmds' = nCmds
      ]_vars

\* C5, amended: the step that handles the cancellation (the only one that
\* leaves the select for the end of the loop) is taken only when ctx is
\* cancelled, and sends no snapshot and changes no aggregate; once the loop
\* has ended no snapshot is sent, no aggregate changes and no line or command
\* is taken; and a final snapshot is rendered only for a closed command source.
C5_CancelNoFlush ==
    [][ /\ (pc = "select" /\ pc' = "done") =>
              /\ cancelled
              /\ emitted' = emitted
              /\ metricsChan' = metricsChan
              /\ p4m' = p4m
        /\ pc = "done" =>
              /\ pc' = "done"
              /\ emitted' = emitted
              /\ p4m' = p4m
              /\ nLines' = nLines
              /\ nCmds' = nCmds
              /\ Len(metricsChan') <= Len(metricsChan)
        /\ pc' = "sendFinal" => cmdsInClosed
      ]_vars

\* The loop ended on cancellation with a recorded command that no snapshot
\* reported.
C5_Witness ==
    /\ pc = "done"
    /\ cancelled
    /\ ~cmdsInClosed
    /\ window # << >>
    /\ emitted = << >>
    /\ metricsChan = << >>

SendPcs == { "sendLine", "sendTime", "sendCmdOut", "sendTick", "sendBoundary", "sendFinal" }

\* C6: without cancellation and under the fairness above, once the line
\* source is closed the loop ends having sent a final snapshot as its last
\* one, and a handler waiting to send on the forwarding queue, the time
\* queue, the record output or the snapshot output always gets past that send.
C6_EventuallyTerminated ==
    /\ linesInClosed ~> (pc = "done" /\ emitted # << >> /\ Last(emitted).kind = "final")
    /\ \A l \in SendPcs : (pc = l) ~> (pc # l)

\* The loop has ended on the closure of the command source after taking every
\* line, and the sink has taken the final snapshot.
C6_Witness ==
    /\ pc = "done"
    /\ ~cancelled
    /\ nLines = MaxLines
    /\ fpLinesChan = << >>
    /\ metricsChan = << >>
    /\ Last(emitted).kind = "final"

\* The per-command counts and the commands-processed count that a snapshot
\* prints are those of the records in seq, n records having been processed.
Renders(snap, seq, n) ==
    /\ \A c \in CmdNames : MapGet(SamplesOf(snap, "p4_cmd_counter"), c) = CountCmd(seq, c)
    /\ SamplesOf(snap, "p4_prom_cmds_processed")[<< >>] = n

\* C7: the step that decides a flush renders the snapshot from the records
\* processed so far (since the last reset in live mode, since the start in
\* historical mode) and processes none; a snapshot is sent only by the
\* handler that rendered it, as it was rendered, and at that step it still
\* counts exactly the records processed, none having been processed since.
C7_SnapshotIsStateAtFlush ==
    [][ /\ (pc \notin FlushPcs /\ pc' \in FlushPcs) =>
              /\ window' = window
              /\ nCmds' = nCmds
              /\ Renders(cur'.snap, window, nCmds)
        /\ emitted' # emitted =>
              /\ pc \in FlushPcs
              /\ emitted' = Append(emitted, cur)
              /\ metricsChan' = Append(metricsChan, cur.snap)
              /\ cur.window = window
              /\ Renders(cur.snap, window, nCmds)
      ]_vars

\* A live run whose first snapshot counts a sync and whose second counts an
\* edit processed after the first flush, and no sync.
C7_Witness ==
    /\ ~cfg.historical
    /\ Len(emitted) = 2
    /\ MapGet(SamplesOf(emitted[1].snap, "p4_cmd_counter"), Str("sync")) = 1
    /\ MapGet(SamplesOf(emitted[1].snap, "p4_cmd_counter"), Str("edit")) = 0
    /\ MapGet(SamplesOf(emitted[2].snap, "p4_cmd_counter"), Str("sync")) = 0
    /\ MapGet(SamplesOf(emitted[2].snap, "p4_cmd_counter"), Str("edit")) = 1
    /\ SamplesOf(emitted[2].snap, "p4_prom_cmds_processed")[<< >>] = 2

\* C8: fpLinesChan is closed at most once, by a step of the select taken
\* when the line source is closed, which leaves the loop at its select; no
\* line is sent on it once it is closed; and while draining the select still
\* takes a tick and any command the parser hands over, and the loop only
\* ends on the closure of the command source or on cancellation.
C8_CloseOnceThenDrain ==
    /\ [](/\ closeCalls <= 1
          /\ fpLinesClosed => (linesInClosed /\ fpLinesNil /\ pc # "sendLine")
          /\ pc = "done" => (cmdsInClosed \/ cancelled)
          /\ (fpLinesClosed /\ pc = "select") =>
                /\ nTicks < MaxTicks => ENABLED OnTick
                /\ \A cmd \in Commands :
                      (~cmdsInClosed /\ fpPending > 0 /\ nCmds < MaxCmds) =>
                          ENABLED OnCmd(cmd))
    /\ [][ /\ closeCalls' # closeCalls =>
                 /\ linesInClosed /\ ~fpLinesClosed /\ fpLinesClosed'
                 /\ pc = "select" /\ pc' = "select"
                 /\ fpLinesChan' = fpLinesChan
           /\ fpLinesClosed => (fpLinesClosed' /\ Len(fpLinesChan') <= Len(fpLinesChan))
         ]_vars

\* fpLinesChan has been closed and a command taken after that is being sent
\* on to cmdsOutChan.
C8_Witness ==
    /\ fpLinesClosed
    /\ closeCalls = 1
    /\ pc = "sendCmdOut"
    /\ ~cmdsInClosed
    /\ p4m.cmdsProcessed = 2

\* The conditions under which historicalUpdateRequired returns true for a
\* line, from the stored prefix and time of aggregates m.
UpdateRequired(m, line) ==
    /\ cfg.historical
    /\ IsStartLine(line)
    /\ m.latestStartCmdBuf # << >>
    /\ StrCompare(Take(line, lenPrefix), m.latestStartCmdBuf) > 0
    /\ TimeSub(LineTime(line), m.timeLatestStartCmd) >= cfg.UpdateInterval

\* The conditions under which historicalUpdateRequired sends the time of a
\* line on timeChan.
NotifyRequired(m, line) ==
    /\ cfg.historical
    /\ IsStartLine(line)
    /\ m.latestStartCmdBuf # << >>
    /\ StrCompare(Take(line, lenPrefix), m.latestStartCmdBuf) > 0
    /\ TimeSub(LineTime(line), m.timeLatestStartCmd) >= NotifyGap

\* C9: the detector returns true for a line (the handler goes on to send a
\* boundary snapshot) exactly when the run is historical, the line has the
\* timestamp prefix, a prefix is stored, the line's prefix compares greater
\* than it and the line's time is at least the update interval after the
\* stored time; a boundary snapshot is rendered there and sent once, by the
\* next step of the handler; in live mode it never returns true.
C9_UpdateRequiredIff ==
    [][ /\ ((pc = "sendLine" /\ pc' \in { "select", "sendBoundary" })
               \/ (pc = "sendTime" /\ pc' # "sendTime")) =>
              /\ pc' = "sendBoundary" <=> UpdateRequired(p4m, cur)
              /\ pc' = "sendBoundary" => (cur'.kind = "boundary" /\ emitted' = emitted)
        /\ pc' = "sendBoundary" => pc \in { "sendLine", "sendTime", "sendBoundary" }
        /\ (pc = "sendBoundary" /\ pc' # "sendBoundary") =>
              /\ pc' = "select"
              /\ emitted' = Append(emitted, cur)
        /\ (emitted' # emitted /\ Last(emitted').kind = "boundary") => pc = "sendBoundary"
        /\ ~cfg.historical => pc' # "sendBoundary"
      ]_vars

\* A boundary snapshot sent for a line exactly the update interval after the
\* stored time.
C9_Witness ==
    /\ cfg.historical
    /\ cfg.UpdateInterval = 2
    /\ emitted # << >>
    /\ emitted[1].kind = "boundary"
    /\ p4m.latestStartCmdBuf = Take(LineT2, lenPrefix)

\* C10: handling a line, the detector goes on to send on timeChan exactly
\* when the run is historical, the line has the timestamp prefix, a prefix
\* is stored, the line's prefix compares greater than it and the line's time
\* is at least 3 seconds after the stored time, whatever the update interval;
\* the time sent is the line's, once, and nothing else is sent on timeChan.
C10_NotifyIff ==
    [][ /\ (pc = "sendLine" /\ pc' # "sendLine") =>
              (pc' = "sendTime" <=> NotifyRequired(p4m, cur))
        /\ (pc # "sendTime" /\ pc' = "sendTime") => (pc = "sendLine" /\ timeChan' = timeChan)
        /\ (pc = "sendTime" /\ pc' # "sendTime") =>
              timeChan' = Append(timeChan, LineTime(cur))
        /\ Len(timeChan') > Len(timeChan) => pc = "sendTime"
      ]_vars

\* A time 10 seconds after the stored one has been sent on timeChan with an
\* update interval of 60 seconds: no update was reported, and the detector
\* has not advanced.
C10_Witness ==
    /\ cfg.historical
    /\ cfg.UpdateInterval = 60
    /\ timeChan = << LineTime(LineT10) >>
    /\ p4m.latestStartCmdBuf = Take(LineT0, lenPrefix)
    /\ pc = "select"
    /\ emitted = << >>

\* The step publishes a command record (it is held in cur afterwards).
Recorded == nCmds' = nCmds + 1 /\ cur' \in RecordCommands

\* The two replica aggregates, and the two IP aggregates.
ReplicaAggregates(m) == << m.cmdByReplicaCounter, m.cmdByReplicaCumulative >>

IPAggregates(m) == << m.cmdByIPCounter, m.cmdByIPCumulative >>

\* The aggregates of a dimension with one more command of duration lapse
\* counted under key.
Counted(agg, key, lapse) == << MapAdd(agg[1], key, 1), MapAdd(agg[2], key, lapse) >>

\* C11 as stated: publishing a record whose IP holds a "/" counts it under
\* the IP dimension with the text after the first "/" (and under the replica
\* dimension with the text before it, where there is some); publishing a
\* record whose IP holds no "/" counts it under the IP dimension with the
\* whole value and changes no replica aggregate.
C11_Original ==
    [][ Recorded =>
          LET ip == cur'.IP
              lapse == cur'.CompletedLapse
              j == StrIndex(ip, << "/" >>)
          IN  IF j >= 0
              THEN /\ IPAggregates(p4m') = Counted(IPAggregates(p4m), Drop(ip, j + 1), lapse)
                   /\ j > 0 => ReplicaAggregates(p4m')
                                   = Counted(ReplicaAggregates(p4m), Take(ip, j), lapse)
              ELSE /\ IPAggregates(p4m') = Counted(IPAggregates(p4m), ip, lapse)
                   /\ ReplicaAggregates(p4m') = ReplicaAggregates(p4m)
      ]_vars

\* A record whose IP is "/10.0.0.5" has been published: it is counted under
\* the IP key "/10.0.0.5", not under "10.0.0.5", and under no replica.
C11_Witness ==
    /\ cur = CmdLeadingSlash
    /\ window = << CmdLeadingSlash >>
    /\ Str("/10.0.0.5") \in DOMAIN p4m.cmdByIPCounter
    /\ Str("10.0.0.5") \notin DOMAIN p4m.cmdByIPCounter
    /\ p4m.cmdByReplicaCounter = EmptyMap

\* The table name starts with "trigger_".
StartsWithTrigger(name) ==
    Len(name) >= Len(triggerPrefix) /\ Take(name, Len(triggerPrefix)) = triggerPrefix

\* The aggregates m with the table entries from entry i on added as C12
\* states it: the lapse of an entry whose name starts with "trigger_" under
\* the trigger key that is the name without the prefix, the four lock times
\* of any other entry under the lock keys that are its name.
RECURSIVE TablesAsStated(_, _, _)
TablesAsStated(m, tables, i) ==
    IF i > Len(tables) THEN m
    ELSE LET t == tables[i]
         IN  IF StartsWithTrigger(t.TableName)
             THEN TablesAsStated(
                    [m EXCEPT !.totalTriggerLapse =
                        MapAdd(@, Drop(t.TableName, Len(triggerPrefix)), t.TriggerLapse)],
                    tables, i + 1)
             ELSE TablesAsStated(
                    [m EXCEPT
                        !.totalReadHeld = MapAdd(@, t.TableName, t.TotalReadHeld),
                        !.totalReadWait = MapAdd(@, t.TableName, t.TotalReadWait),
                        !.totalWriteHeld = MapAdd(@, t.TableName, t.TotalWriteHeld),
                        !.totalWriteWait = MapAdd(@, t.TableName, t.TotalWriteWait)],
                    tables, i + 1)

\* The four lock aggregates and the trigger-lapse aggregate.
TableAggregates(m) ==
    << m.totalReadHeld, m.totalReadWait, m.totalWriteHeld, m.totalWriteWait,
       m.totalTriggerLapse >>

\* C12 as stated: publishing a record adds, for every table entry whose name
\* starts with "trigger_", its lapse to the trigger-lapse total keyed by the
\* name without that prefix and nothing to a lock total, and for every other
\* entry its four lock times to the lock totals keyed by its name and nothing
\* to a trigger-lapse total.
C12_Original ==
    [][ Recorded =>
          TableAggregates(p4m') = TableAggregates(TablesAsStated(p4m, cur'.Tables, 1))
      ]_vars

\* A record with a table named "trigger_" has been published: its lock times
\* are under the lock key "trigger_", and its lapse under no trigger key.
C12_Witness ==
    /\ window = << CmdBareTrigger >>
    /\ Str("trigger_") \in DOMAIN p4m.totalReadHeld
    /\ p4m.totalWriteHeld[Str("trigger_")] = 4
    /\ DOMAIN p4m.totalTriggerLapse = { Str("t") }

\* C13: the program label of a name is a fixed point of the sanitization
\* (" (brokered)" removed, then every character outside the allow-list
\* replaced by "_"): a command named by the label is counted under the very
\* key the command with the original name was counted under, and no other
\* per-program key appears.
C13_SanitizeIdempotent ==
    nCmds >= 1 =>
        /\ ProgramLabel(cur) = cur
        /\ DOMAIN p4m.cmdByProgramCounter = { cur }
        /\ p4m.cmdByProgramCounter[cur] = nCmds

\* The name " (bro (brokered)kered)", whose label still reads
\* "(brokered)", and that label have both been counted, under one key.
C13_Witness ==
    /\ nCmds = 2
    /\ window[1].App = Str(" (bro (brokered)kered)")
    /\ window[2].App = Str("_(brokered)")
    /\ cur = Str("_(brokered)")
    /\ p4m.cmdByProgramCounter[cur] = 2

\* The concatenation of the strings of a sequence.
RECURSIVE Concat(_)
Concat(ss) == IF Len(ss) = 0 THEN << >> ELSE ss[1] \o Concat(Tail(ss))

\* The labels of a list whose value is not empty, in their order.
NonEmptyLabels(labels) == SelectSeq(labels, LAMBDA l : l.value # << >>)

\* 'name;l1=v1;l2=v2 value ts' and a newline.
HistoricalLine(mname, labels, metricVal, ts) ==
    mname
      \o Concat([ i \in 1..Len(NonEmptyLabels(labels)) |->
                    Str(";") \o NonEmptyLabels(labels)[i].name \o Str("=")
                        \o NonEmptyLabels(labels)[i].value ])
      \o Str(" ") \o metricVal \o Str(" ") \o ts \o Str("\n")

\* 'name{l1="v1",l2="v2"} value' and a newline.
LiveLine(mname, labels, metricVal) ==
    mname \o Str("{")
      \o Concat([ i \in 1..Len(NonEmptyLabels(labels)) |->
                    (IF i > 1 THEN Str(",") ELSE << >>)
                        \o NonEmptyLabels(labels)[i].name \o Str("=\"")
                        \o NonEmptyLabels(labels)[i].value \o Str("\"") ])
      \o Str("} ") \o metricVal \o Str("\n")

\* '# HELP name help' and '# TYPE name type', a line each.
HeaderLines(mname, help, metricType) ==
    Str("# HELP ") \o mname \o Str(" ") \o help \o Str("\n")
      \o Str("# TYPE ") \o mname \o Str(" ") \o metricType \o Str("\n")

IsPrefix(a, b) == Len(a) <= Len(b) /\ a = SubSeq(b, 1, Len(a))

\* Sequence a is the end of sequence b.
IsSuffix(a, b) == Len(a) <= Len(b) /\ a = SubSeq(b, Len(b) - Len(a) + 1, Len(b))

\* C15: with cmdsOutChan asked for, the commands sent on it are the commands
\* taken from the parser and recorded, in their order and once each: the
\* commands sent are always the start of the commands taken, all of them but
\* the one whose send is under way; what cmdsOutChan holds is the end of what
\* was sent; the commands recorded since the last reset are the end of the
\* commands taken; and at the select (and after the loop) the number sent,
\* cmdsProcessed and the number taken from the parser are equal.
C15_RecordsPassThrough ==
    cfg.needCmdChan =>
        /\ IsPrefix(cmdsSent, cmdsTaken)
        /\ Len(cmdsTaken) = Len(cmdsSent) + (IF pc = "sendCmdOut" THEN 1 ELSE 0)
        /\ pc = "sendCmdOut" => cur = Last(cmdsTaken)
        /\ IsSuffix(cmdsOutChan, cmdsSent)
        /\ IsSuffix(window, cmdsTaken)
        /\ p4m.cmdsProcessed = Len(cmdsTaken)
        /\ nCmds = Len(cmdsTaken)
        /\ pc \in { "select", "done" } => Len(cmdsSent) = p4m.cmdsProcessed

\* Two different commands have been taken, recorded and sent on, in order,
\* and the second is still in cmdsOutChan.
C15_Witness ==
    /\ pc = "select"
    /\ cmdsTaken = << CmdEdit, CmdSyncRelay >>
    /\ cmdsSent = cmdsTaken
    /\ cmdsOutChan = << CmdSyncRelay >>
    /\ p4m.cmdsProcessed = 2

\* C16: the lines sent on fpLinesChan are always the start of the lines
\* taken from the source, all of them but the one whose send is under way,
\* so that every line taken is forwarded once, in arrival order; what
\* fpLinesChan holds is the end of what was sent; and linesRead grows by one
\* exactly at the step that takes a line (in a historical run, where it is
\* never reset, it is the number of lines taken).
C16_LinesForwardedInOrder ==
    /\ [](/\ IsPrefix(linesSent, linesTaken)
          /\ Len(linesTaken) = Len(linesSent) + (IF pc = "sendLine" THEN 1 ELSE 0)
          /\ pc = "sendLine" => cur = Last(linesTaken)
          /\ IsSuffix(fpLinesChan, linesSent)
          /\ nLines = Len(linesTaken)
          /\ cfg.historical => p4m.linesRead = Len(linesTaken))
    /\ [][ /\ linesTaken' # linesTaken =>
                 /\ \E line \in Lines : linesTaken' = Append(linesTaken, line)
                 /\ p4m'.linesRead = p4m.linesRead + 1
                 /\ linesSent' = linesSent
           /\ linesTaken' = linesTaken =>
                 \/ p4m'.linesRead = p4m.linesRead
                 \/ pc = "sendTick" /\ p4m'.linesRead = 0
           /\ linesSent' # linesSent =>
                 linesSent' = Append(linesSent, cur) /\ fpLinesChan' = Append(fpLinesChan, cur)
         ]_vars

\* Two lines taken against the order of their times have been forwarded in
\* the order they were taken, and the parser has taken the first.
C16_Witness ==
    /\ cfg.historical
    /\ pc = "select"
    /\ linesTaken = << LineT10, LineShort >>
    /\ linesSent = linesTaken
    /\ fpLinesChan = << LineShort >>
    /\ p4m.linesRead = 2

\* Every value of the map is 0.
AllZero(f) == \A k \in DOMAIN f : f[k] = 0

\* The counter-class aggregates of m are 0 for every key they hold.
CounterClassZero(m) ==
    /\ AllZero(m.cmdCounter) /\ AllZero(m.cmdErrorCounter)
    /\ AllZero(m.cmdByUserCounter) /\ AllZero(m.cmdByIPCounter)
    /\ AllZero(m.cmdByReplicaCounter) /\ AllZero(m.cmdByProgramCounter)
    /\ \A u \in DOMAIN m.cmdByUserDetailCounter : AllZero(m.cmdByUserDetailCounter[u])
    /\ m.cmdRunning = 0 /\ m.linesRead = 0
    /\ m.syncFilesAdded = 0 /\ m.syncFilesUpdated = 0 /\ m.syncFilesDeleted = 0
    /\ m.syncBytesAdded = 0 /\ m.syncBytesUpdated = 0
    /\ AllZero(m.totalReadWait) /\ AllZero(m.totalReadHeld)
    /\ AllZero(m.totalWriteWait) /\ AllZero(m.totalWriteHeld)
    /\ AllZero(m.totalTriggerLapse)

\* The key sets of the counter-class maps of m.
CounterClassKeys(m) ==
    << DOMAIN m.cmdCounter, DOMAIN m.cmdErrorCounter, DOMAIN m.cmdByUserCounter,
       DOMAIN m.cmdByIPCounter, DOMAIN m.cmdByReplicaCounter,
       DOMAIN m.cmdByProgramCounter,
       [ u \in DOMAIN m.cmdByUserDetailCounter |-> DOMAIN m.cmdByUserDetailCounter[u] ],
       DOMAIN m.totalReadWait, DOMAIN m.totalReadHeld, DOMAIN m.totalWriteWait,
       DOMAIN m.totalWriteHeld, DOMAIN m.totalTriggerLapse >>

\* C17: the step that completes a ticker flush (taken in live mode only)
\* leaves every counter-class aggregate at 0 for every key it held before,
\* the keys staying.
C17_CountersZeroAfterFlush ==
    [][ (pc = "sendTick" /\ pc' # "sendTick") =>
          /\ ~cfg.historical
          /\ CounterClassZero(p4m')
          /\ CounterClassKeys(p4m') = CounterClassKeys(p4m)
      ]_vars

\* A ticker flush has just reported two commands with lock times, a trigger
\* lapse, an error and sync counts, and every such aggregate is back at 0.
C17_Witness ==
    /\ ~cfg.historical
    /\ pc = "select"
    /\ Len(emitted) = 1
    /\ Len(emitted[1].window) = 2
    /\ window = << >>
    /\ p4m.totalWriteHeld[Str("db.have")] = 0
    /\ p4m.totalReadHeld[Str("db.rev")] = 0
    /\ p4m.totalTriggerLapse[Str("mytrig")] = 0
    /\ p4m.cmdErrorCounter[Str("edit")] = 0
    /\ p4m.cmdByReplicaCounter[Str("relay1")] = 0

\* The goroutine is inside a handler, at a send on a channel that is full.
BlockedInSend ==
    \/ pc = "sendLine" /\ Len(fpLinesChan) = FpLinesCap
    \/ pc = "sendTime" /\ Len(timeChan) = TimeChanCap
    \/ pc = "sendCmdOut" /\ Len(cmdsOutChan) = CmdsOutCap
    \/ pc \in FlushPcs /\ Len(metricsChan) = MetricsCap

\* C18 as stated: the goroutine is never blocked inside a handler on a send
\* to fpLinesChan, timeChan, cmdsOutChan or metricsChan.
C18_Original == ~BlockedInSend

\* ctx is cancelled and both sources are open, while the goroutine waits
\* inside the ticker handler to send a snapshot on a full metricsChan.
C18_Witness ==
    /\ pc = "sendTick"
    /\ Len(metricsChan) = MetricsCap
    /\ cancelled
    /\ ~linesInClosed
    /\ ~cmdsInClosed

\* The last snapshot that a step sends on metricsChan.
LastEmitted(sent) == sent[Len(sent)]

\* C19: in historical mode a snapshot carries timeLatestStartCmd as it stands
\* when the snapshot is sent. The update that leads to a snapshot stores the
\* time of its line before the snapshot is rendered, and the stored time is
\* left alone until that snapshot is sent; the final snapshot carries the time
\* of the last update, which is the time of the snapshot sent before it.
C19_HistoricalTimestamp ==
    [][ /\ (pc \in { "sendLine", "sendTime" } /\ pc' = "sendBoundary") =>
              /\ p4m'.timeLatestStartCmd = LineTime(cur)
              /\ cur'.snap.ts = << LineTime(cur) >>
        /\ pc = "sendBoundary" => p4m' = p4m
        /\ (cfg.historical /\ emitted' # emitted) =>
              /\ emitted' = Append(emitted, LastEmitted(emitted'))
              /\ LastEmitted(emitted').snap.ts = << p4m'.timeLatestStartCmd >>
              /\ p4m'.timeLatestStartCmd = p4m.timeLatestStartCmd
              /\ LastEmitted(emitted').kind = "boundary" => LastEmitted(emitted') = cur
              /\ (LastEmitted(emitted').kind = "final" /\ emitted # << >>) =>
                    LastEmitted(emitted').snap.ts = LastEmitted(emitted).snap.ts
      ]_vars

\* A historical run that sent one snapshot at the update of the line stamped
\* ten seconds after the first, and then the final snapshot.
C19_Witness ==
    /\ cfg.historical
    /\ Len(emitted) = 2
    /\ emitted[1].kind = "boundary"
    /\ emitted[1].snap.ts = << LineTime(LineT10) >>
    /\ emitted[2].kind = "final"
    /\ emitted[2].snap.ts = << LineTime(LineT10) >>

\* C20 as stated: in historical mode any two snapshots sent in one run, the
\* final one included, carry different timestamps.
C20_Original ==
    cfg.historical =>
        \A i, j \in 1..Len(emitted) : i # j => emitted[i].snap.ts # emitted[j].snap.ts

\* A finished historical run whose final snapshot repeats the timestamp of the
\* snapshot sent at the update before it, with one more command counted.
C20_Witness ==
    /\ cfg.historical
    /\ pc = "done"
    /\ metricsClosed
    /\ Len(emitted) = 2
    /\ emitted[2].kind = "final"
    /\ emitted[1].snap.ts = << LineTime(LineT300) >>
    /\ emitted[2].snap.ts = emitted[1].snap.ts
    /\ emitted[1].processed < emitted[2].processed

\* The detector's stored prefix and time, and those of a line.
Detector(m) == << m.latestStartCmdBuf, m.timeLatestStartCmd >>

LineDetector(line) == << Take(line, lenPrefix), LineTime(line) >>

\* The line is the first with the timestamp prefix that a historical run sees.
FirstStartLine(m, line) ==
    cfg.historical /\ IsStartLine(line) /\ m.latestStartCmdBuf = << >>

\* C21: the stored prefix and time change only in the handler of a line, to
\* the prefix and time of that line, and only when the line is the first with
\* the timestamp prefix (no snapshot follows) or when the detector returns
\* true for it (a boundary snapshot follows); in both cases they do change.
\* Every other line leaves them as they are, a line whose time was sent on
\* timeChan included.
C21_DetectorFrame ==
    [][ /\ Detector(p4m') # Detector(p4m) =>
              /\ pc \in { "sendLine", "sendTime" }
              /\ Detector(p4m') = LineDetector(cur)
              /\ \/ pc = "sendLine" /\ FirstStartLine(p4m, cur) /\ pc' = "select"
                 \/ UpdateRequired(p4m, cur) /\ pc' = "sendBoundary"
        /\ (pc = "sendLine" /\ pc' # "sendLine" /\ FirstStartLine(p4m, cur)) =>
              (Detector(p4m') = LineDetector(cur) /\ pc' = "select")
        /\ (pc # "sendBoundary" /\ pc' = "sendBoundary") =>
              (Detector(p4m') = LineDetector(cur) /\ Detector(p4m') # Detector(p4m))
        /\ (pc = "sendTime" /\ pc' = "select") => Detector(p4m') = Detector(p4m)
      ]_vars

\* Two lines handled with an update interval of 60 seconds: the second, ten
\* seconds after the first, had its time sent on timeChan and left the stored
\* prefix and time at the first line's.
C21_Witness ==
    /\ cfg.historical
    /\ cfg.UpdateInterval = 60
    /\ nLines = 2
    /\ pc = "select"
    /\ timeChan = << LineTime(LineT10) >>
    /\ Detector(p4m) = LineDetector(LineT0)
    /\ emitted = << >>

\* C22: in historical mode the step that takes a tick changes nothing but the
\* count of ticks: aggregates, detector state, the handler's position and
\* every channel stay as they are and no snapshot is sent. A historical run
\* sends snapshots only at the end of the handler of a line for which the
\* detector returned true and at the end of the handler of the closure of
\* cmdsInChan.
C22_HistoricalTickNoEffect ==
    [][ cfg.historical =>
          /\ nTicks' # nTicks =>
                /\ nTicks' = nTicks + 1
                /\ UNCHANGED << p4m, pc, cur, chans, env, nLines, nCmds, emitted, window,
                                closeCalls, hist >>
          /\ pc' # "sendTick"
          /\ emitted' # emitted =>
                /\ emitted' = Append(emitted, cur)
                /\ \/ pc = "sendBoundary" /\ cur.kind = "boundary"
                   \/ pc = "sendFinal" /\ cur.kind = "final" /\ cmdsInClosed
          /\ (pc # "sendFinal" /\ pc' = "sendFinal") => (pc = "select" /\ cmdsInClosed)
      ]_vars

\* A finished historical run in which two ticks were taken and the two
\* snapshots sent are the one of an update and the final one.
C22_Witness ==
    /\ cfg.historical
    /\ nTicks = 2
    /\ pc = "done"
    /\ Len(emitted) = 2
    /\ emitted[1].kind = "boundary"
    /\ emitted[2].kind = "final"
    /\ nCmds = 2

\* The families in the order in which getCumulativeMetrics prints them.
FamilyOrder ==
    << "p4_prom_log_lines_read", "p4_prom_cmds_processed", "p4_prom_cmds_pending",
       "p4_cmd_running", "p4_prom_cpu_user", "p4_prom_cpu_system",
       "p4_sync_files_added", "p4_sync_files_updated", "p4_sync_files_deleted",
       "p4_sync_bytes_added", "p4_sync_bytes_updated",
       "p4_cmd_counter", "p4_cmd_cumulative_seconds",
       "p4_cmd_cpu_user_cumulative_seconds", "p4_cmd_cpu_system_cumulative_seconds",
       "p4_cmd_error_counter",
       "p4_cmd_user_counter", "p4_cmd_user_cumulative_seconds",
       "p4_cmd_ip_counter", "p4_cmd_ip_cumulative_seconds",
       "p4_cmd_user_detail_counter", "p4_cmd_user_detail_cumulative_seconds",
       "p4_cmd_replica_counter", "p4_cmd_replica_cumulative_seconds",
       "p4_cmd_program_counter", "p4_cmd_program_cumulative_seconds",
       "p4_total_read_wait_seconds", "p4_total_read_held_seconds",
       "p4_total_write_wait_seconds", "p4_total_write_held_seconds",
       "p4_total_trigger_lapse_seconds" >>

\* Some record taken so far has a table entry named "trigger_" and more.
TriggerObserved(taken) ==
    \E i \in 1..Len(taken) : \E k \in 1..Len(taken[i].Tables) :
        /\ StartsWithTrigger(taken[i].Tables[k].TableName)
        /\ taken[i].Tables[k].TableName # triggerPrefix

\* The gate of a family under configuration c, observed telling whether a
\* trigger has been seen since the start.
Gated(name, c, observed) ==
    CASE name \in { "p4_cmd_user_counter", "p4_cmd_user_cumulative_seconds" } ->
            c.OutputCmdsByUser
      [] name \in { "p4_cmd_ip_counter", "p4_cmd_ip_cumulative_seconds" } ->
            c.OutputCmdsByIP
      [] name \in { "p4_cmd_user_detail_counter",
                    "p4_cmd_user_detail_cumulative_seconds" } ->
            c.OutputCmdsByUserRegex # << >>
      [] name = "p4_total_trigger_lapse_seconds" -> observed
      [] OTHER -> TRUE

\* The families that pass their gates, in order.
GatedFamilies(c, observed) ==
    SelectSeq(FamilyOrder, LAMBDA name : Gated(name, c, observed))

\* The number of lines that a family contributes to the text of a snapshot:
\* the two header lines in the live dialect, and a line for every sample.
LinesOf(snap, family) ==
    (IF snap.header THEN 2 ELSE 0) + Cardinality(DOMAIN family.samples)

\* The names of the families of a snapshot, in order: of all that are
\* rendered, and of those that contribute a line to its text.
RenderedNames(snap) == [ i \in 1..Len(snap.families) |-> snap.families[i].name ]

PrintedNames(snap) ==
    LET printed == SelectSeq(snap.families, LAMBDA family : LinesOf(snap, family) > 0)
    IN  [ i \in 1..Len(printed) |-> printed[i].name ]

\* The family has a sample in the snapshot.
HasSample(snap, name) ==
    \E i \in 1..Len(snap.families) :
        snap.families[i].name = name /\ DOMAIN snap.families[i].samples # {}

OtherTaskStep ==
    \/ Len(fpLinesChan') < Len(fpLinesChan)
    \/ Len(timeChan') < Len(timeChan)
    \/ Len(metricsChan') < Len(metricsChan)
    \/ Len(cmdsOutChan') < Len(cmdsOutChan)
    \/ linesInClosed' # linesInClosed
    \/ cmdsInClosed' # cmdsInClosed
    \/ cancelled' # cancelled

RECURSIVE SumCmdCounter(_, _, _)
SumCmdCounter(sent, name, i) ==
    IF i > Len(sent) THEN 0
    ELSE MapGet(SamplesOf(sent[i].snap, "p4_cmd_counter"), name)
            + SumCmdCounter(sent, name, i + 1)

\* The run is live and has ended with the final snapshot: cmdsInChan was
\* closed and the goroutine returned from that case.
EndedGracefully ==
    /\ ~cfg.historical
    /\ pc = "done"
    /\ emitted # << >>
    /\ Last(emitted).kind = "final"

\* C25: when a live run has ended with its final snapshot, the counts that
\* its snapshots report for a command name add up to the number of records
\* with that name received from the parser, and the final snapshot reports
\* as commands processed the number of all records received.
C25_NoCommandLostOrDoubled ==
    EndedGracefully =>
        /\ \A c \in CmdNames : SumCmdCounter(emitted, c, 1) = CountCmd(cmdsTaken, c)
        /\ SamplesOf(Last(emitted).snap, "p4_prom_cmds_processed")[<< >>] = Len(cmdsTaken)

\* A live run of two sync records and two ticks, a record before each tick:
\* the three snapshots report 1, 1 and 0 sync commands.
C25_Witness ==
    /\ EndedGracefully
    /\ ~cancelled
    /\ cmdsTaken = << CmdSyncRelay, CmdSyncRelay >>
    /\ Len(emitted) = 3
    /\ MapGet(SamplesOf(emitted[1].snap, "p4_cmd_counter"), Str("sync")) = 1
    /\ MapGet(SamplesOf(emitted[2].snap, "p4_cmd_counter"), Str("sync")) = 1
    /\ MapGet(SamplesOf(emitted[3].snap, "p4_cmd_counter"), Str("sync")) = 0

\* The sum of the values of a map.
RECURSIVE MapSum(_)
MapSum(f) ==
    IF DOMAIN f = {} THEN 0
    ELSE LET k == CHOOSE x \in DOMAIN f : TRUE
         IN  f[k] + MapSum([ x \in DOMAIN f \ {k} |-> f[x] ])

\* C26: the counts per command, per user, per IP and per program each add up
\* to the number of commands recorded since the last reset, the counts per
\* replica add up to at most that number, and no command name has more
\* errors counted than commands.
C26_DimensionsAgree ==
    /\ MapSum(p4m.cmdCounter) = Len(window)
    /\ MapSum(p4m.cmdByUserCounter) = Len(window)
    /\ MapSum(p4m.cmdByIPCounter) = Len(window)
    /\ MapSum(p4m.cmdByProgramCounter) = Len(window)
    /\ MapSum(p4m.cmdByReplicaCounter) <= Len(window)
    /\ \A c \in DOMAIN p4m.cmdErrorCounter :
          p4m.cmdErrorCounter[c] <= MapGet(p4m.cmdCounter, c)

\* After a record of a failed edit and a reset, a record without IP has been
\* published: one command is counted in each dimension but the replicas', and
\* the edit error count is back to what the new record adds.
C26_Witness ==
    /\ nCmds = 2
    /\ window = << CmdNoIP >>
    /\ DOMAIN p4m.cmdByReplicaCounter = {}
    /\ MapSum(p4m.cmdByIPCounter) = 1
    /\ p4m.cmdByIPCounter[<< >>] = 1
    /\ Cardinality(DOMAIN p4m.cmdByProgramCounter) = 2
    /\ p4m.cmdErrorCounter[Str("edit")] = 1
    /\ p4m.cmdCounter[Str("edit")] = 1

\* The four lock maps, and their having all the same keys.
LockMaps(m) == << m.totalReadWait, m.totalReadHeld, m.totalWriteWait, m.totalWriteHeld >>

SameLockKeys(m) ==
    \A i \in 1..4 : DOMAIN LockMaps(m)[i] = DOMAIN m.totalReadHeld

\* C27: the four lock maps have the same keys in every state, and right
\* after a reset (no command recorded since) every entry of the four is zero.
C27_LockMapsSameKeys ==
    /\ SameLockKeys(p4m)
    /\ window = << >> => \A i \in 1..4 : AllZero(LockMaps(p4m)[i])

\* A record with write locks only on db.have was published and the
\* aggregates were reset: db.have is a key of the four maps, with zero totals.
C27_Witness ==
    /\ nCmds = 1
    /\ cur = None
    /\ window = << >>
    /\ DOMAIN p4m.totalReadHeld = { Str("db.have") }
    /\ p4m.totalWriteHeld[Str("db.have")] = 0
    /\ p4m.totalWriteWait[Str("db.have")] = 0
    /\ p4m.cmdCumulative[Str("edit")] = 250

\* C28: the goroutine stops in one step, from the case of ctx.Done() or with
\* the send of the final snapshot, and that step closes metricsChan, which
\* was open, and cmdsOutChan when it exists, which was open; no other step
\* closes either. A stopped goroutine has its outputs closed, a running one
\* has them open. Once an output is closed nothing is appended to it and no
\* snapshot is sent. The step that sends the final snapshot puts it on
\* metricsChan and then closes.
C28_OutputsClosedOnce ==
    [][ /\ (pc # "done" /\ pc' = "done") =>
              /\ pc \in { "select", "sendFinal" }
              /\ ~metricsClosed /\ metricsClosed'
              /\ ~cmdsOutClosed /\ cmdsOutClosed' = cfg.needCmdChan
              /\ pc = "sendFinal" =>
                    /\ metricsChan' = Append(metricsChan, cur.snap)
                    /\ Last(emitted') = cur
                    /\ cur.kind = "final"
        /\ (metricsClosed' # metricsClosed \/ cmdsOutClosed' # cmdsOutClosed) =>
              (pc # "done" /\ pc' = "done")
        /\ (pc' = "done") = metricsClosed'
        /\ cmdsOutClosed' => cfg.needCmdChan
        /\ metricsClosed =>
              /\ pc' = "done"
              /\ emitted' = emitted
              /\ Len(metricsChan') <= Len(metricsChan)
              /\ Len(cmdsOutChan') <= Len(cmdsOutChan)
      ]_vars

\* A run that ended without cancellation, with the individual-record output
\* requested: both outputs are closed and the final snapshot, sent before the
\* close, is still in metricsChan for the sink to take.
C28_Witness ==
    /\ pc = "done"
    /\ ~cancelled
    /\ cfg.needCmdChan
    /\ metricsClosed
    /\ cmdsOutClosed
    /\ Last(emitted).kind = "final"
    /\ metricsChan = << Last(emitted).snap >>
    /\ nCmds = 1

\* C29: in a live run nothing is ever on timeChan, the goroutine is never at
\* the send on it nor at the send of a boundary snapshot, and the stored
\* prefix and time are those of NewP4DMetricsLogParser.
C29_LiveNoTimeChan ==
    ~cfg.historical =>
        /\ timeChan = << >>
        /\ pc \notin { "sendTime", "sendBoundary" }
        /\ Detector(p4m) = Detector(NewP4DMetrics)
        /\ \A i \in 1..Len(emitted) : emitted[i].kind # "boundary"

\* A live run has handled two start lines five minutes apart, which the
\* parser has taken: nothing was stored, notified or sent.
C29_Witness ==
    /\ ~cfg.historical
    /\ pc = "select"
    /\ nLines = 2
    /\ nTicks = 0
    /\ p4m.linesRead = 2
    /\ fpPending = 2
    /\ fpLinesChan = << >>
    /\ p4m.latestStartCmdBuf = << >>
    /\ emitted = << >>

\* Time new is at least d seconds after time old; the zero Time is earlier
\* than any parsed time by more than any interval.
LaterBy(old, new, d) ==
    /\ new.ok
    /\ old.ok => new.unix - old.unix >= d

\* The timestamp of a snapshot sent in historical mode.
StampOf(flush) == flush.snap.ts[1]

\* C30: in historical mode, once a prefix is stored, a step that changes the
\* stored prefix or time moves the time forward by at least the update
\* interval, which is positive; no step moves the stored time back; and each
\* snapshot sent at an update carries a time at least the update interval
\* after that of the snapshot sent at the update before.
C30_StoredTimeAdvances ==
    [][ cfg.historical =>
          /\ cfg.UpdateInterval > 0
          /\ (p4m.latestStartCmdBuf # << >> /\ Detector(p4m') # Detector(p4m)) =>
                LaterBy(p4m.timeLatestStartCmd, p4m'.timeLatestStartCmd,
                        cfg.UpdateInterval)
          /\ p4m'.timeLatestStartCmd # p4m.timeLatestStartCmd =>
                LaterBy(p4m.timeLatestStartCmd, p4m'.timeLatestStartCmd, 1)
          /\ \A i \in 1..(Len(emitted') - 1) :
                (emitted'[i].kind = "boundary" /\ emitted'[i + 1].kind = "boundary") =>
                    LaterBy(StampOf(emitted'[i]), StampOf(emitted'[i + 1]),
                            cfg.UpdateInterval)
      ]_vars

\* Three start lines at 0, 2 and 10 seconds with an update interval of 2
\* seconds: updates at the second and the third, whose snapshots carry times
\* 8 seconds apart.
C30_Witness ==
    /\ cfg.historical
    /\ cfg.UpdateInterval = 2
    /\ nLines = 3
    /\ Len(emitted) = 2
    /\ StampOf(emitted[1]) = LineTime(LineT2)
    /\ StampOf(emitted[2]) = LineTime(LineT10)
    /\ p4m.timeLatestStartCmd = LineTime(LineT10)

====
